---- MODULE Spec2Model ----
(***************************************************************************)
(* Acquisition controller, frame store and beam-supply handshake of the    *)
(* X-ray acquisition application (gui.py, lib/app_api.py, detector and     *)
(* machine modules).                                                       *)
(*                                                                         *)
(* A frame is modelled by one pixel value (an integer); an integrated      *)
(* frame is the exact mean of a list of frames, kept as a reduced          *)
(* fraction <<numerator, denominator>>.  <<0, 0>> stands for None.         *)
(***************************************************************************)
EXTENDS Integers, Sequences, FiniteSets, TLC

\* ------------------------------------------------------------------ bounds
MaxReqN == 2        \* largest frame count a caller asks for
MaxOps == 1         \* top-level requests (Start, CT scan, calibration) per run
MaxStops == 1       \* Stop clicks per run
MaxProj == 3        \* projections of one CT scan in the controller runs
MaxPush == 4        \* frames pushed in the frame-store runs
MaxStoreN == 3      \* largest integration capacity in the frame-store runs
PollBound == 1      \* polls a cancelled wait may still make before it returns
MaxShared == 1      \* button clicks, and background requests, per shared run
MaxCollect == 3     \* frames a capture collects before the shared runs stop the worker
MaxRaw == 2         \* raw frame values handed to the pipeline functions
MaxCamFiles == 2    \* reference files in the per-detector directory
MaxTopFiles == 1    \* reference files in the top-level directory
GridH == 2          \* rows of a frame in the bad-pixel runs
GridW == 2          \* columns of a frame in the bad-pixel runs
MaxPixel == 2       \* largest pixel value in the bad-pixel runs
MaxBad == 3         \* bad pixels in a mask
MaxShapeN == 2      \* integration capacity in the frame-size runs
MaxCachePush == 2   \* frames pushed in the cache runs
MaxSignalPush == 3  \* frames pushed in the signal runs
MaxCloseCount == 3  \* _ma_close_count saturates here

\* ------------------------------------------------------- program constants
INTEG_N_MIN == 1
INTEG_N_MAX == 32
DARK_SLOT == 100
FLAT_SLOT == 200
BAD_PIXEL_SLOT == 250
DISTORTION_PREVIEW_SLOT == 450
MUSTACHE_SLOT == 455
AUTOCROP_SLOT == 500
HARD_KV_MAX == 500   \* 50.0 kV in tenths
HARD_MA_MAX == 150   \* 1.5 mA in hundredths
HARD_FIL_MAX == 350  \* 3.5 A in hundredths

NoFrame == <<0, 0>>
PixelValues == {10, 20, 30, 40}
Modes == {"single", "dual", "continuous", "capture_n"}
FailReasons == {"timeout", "stopped", "no_frame", "not_connected", "not_idle",
                "supply_not_connected"}
Threads == {"ui", "wf", "cal"}
Workers == {1, 2}

VARIABLES
    acq_mode,             \* gui.acq_mode
    prev_acq_mode,        \* gui._prev_acq_mode
    acq_stop,             \* gui.acq_stop (threading.Event)
    integration_n,        \* gui.integration_n
    frame_buffer,         \* gui.frame_buffer
    display_frame,        \* gui.display_frame
    last_captured_frame,  \* gui.last_captured_frame
    new_frame_ready,      \* gui.new_frame_ready (threading.Event)
    fail_reason,          \* gui._last_integration_fail_reason ("unset" = None)
    keep_beam_on,         \* gui.workflow_keep_beam_on
    cam_connected,        \* camera_module.is_connected()
    beam,                 \* gui.beam_supply and the supply core behind it
    capture,              \* _capture_max_slot, _capture_frames_collect, ...
    pc,                   \* position of each client thread
    req,                  \* arguments of the call each client thread is in
    ct,                   \* locals of the CT scan worker
    ri_result,            \* value returned by the last request_integration
    cal_result,           \* value returned by the last calibration capture
    workers,              \* detector worker threads
    tick_pc,              \* position of the UI thread inside _render_tick
    ops,                  \* top-level requests made so far, per client thread
    stops,                \* Stop clicks so far
    acq_seq,              \* acquisitions started so far (stamps the frames)
    alteration_pipeline,  \* gui._alteration_pipeline: (slot, module) in run order
    refs,                 \* reference store, query and loaded reference of one kind
    bpm,                  \* bad-pixel stage: incoming frame, mask, switch and last output
    shp,                  \* frame sizes: detector ROI, crop rectangle and the sizes of the buffered frames
    pcache,               \* gui._pipeline_frame_token, gui._pipeline_module_cache and the pushes in flight
    sig,                  \* the push / signal / tick handshake on new_frame_ready
    snap,                 \* gui._frame_before_distortion and the live push that stored it
    save,                 \* the debounced settings save (gui.py 242-245)
    psu,                  \* the supply core (esp_hv_supply/core.py)
    hist                  \* observations used by the properties only

vars == <<acq_mode, prev_acq_mode, acq_stop, integration_n, frame_buffer,
          display_frame, last_captured_frame, new_frame_ready, fail_reason,
          keep_beam_on, cam_connected, beam, capture, pc, req, ct, ri_result,
          cal_result, workers, tick_pc, ops, stops, acq_seq,
          alteration_pipeline, refs, bpm, shp, pcache, sig, snap, save, psu, hist>>

\* ----------------------------------------------------------------- helpers
Min(a, b) == IF a < b THEN a ELSE b
Max(a, b) == IF a > b THEN a ELSE b

RECURSIVE Gcd(_, _)
Gcd(a, b) == IF b = 0 THEN a ELSE Gcd(b, a % b)

RECURSIVE SumSeq(_)
SumSeq(s) == IF s = <<>> THEN 0 ELSE Head(s) + SumSeq(Tail(s))

\* a/b as a reduced fraction (b > 0, a >= 0)
Frac(a, b) == LET g == Gcd(a, b) IN IF g = 0 THEN <<0, 1>> ELSE <<a \div g, b \div g>>

\* np.mean(frames, axis=0): the sum divided by the number of frames
Mean(frames) == Frac(SumSeq(frames), Len(frames))

\* s[-n:] for n >= 1
LastN(s, n) == IF Len(s) <= n THEN s ELSE SubSeq(s, Len(s) - n + 1, Len(s))

\* max(1, min(32, n))
ClampIntegN(n) == Max(INTEG_N_MIN, Min(INTEG_N_MAX, n))

\* ------------------------------------------------------------- frame store
\* variant: the mean is computed for the first frame only and then kept
UpdateIntegratedDisplay_Stale(buf, disp) ==
    IF buf = <<>> \/ disp # NoFrame THEN disp ELSE Mean(buf)

\* _update_integrated_display: no-op on an empty buffer
UpdateIntegratedDisplay(buf, disp) == IF buf = <<>> THEN disp ELSE Mean(buf)

\* variant: the trim keeps the oldest N frames (b[:n])
BufferAfterPush_KeepOldest(buf, n, f) ==
    LET b == Append(buf, f) IN IF Len(b) > n THEN SubSeq(b, 1, n) ELSE b

\* the locked tail of _push_frame: append, trim to the newest N
BufferAfterPush(buf, n, f) ==
    LET b == Append(buf, f) IN IF Len(b) > n THEN LastN(b, n) ELSE b

\* ------------------------------------------------------- alteration pipeline
\* the alteration modules found by discover_modules, in discovery order
\* (sorted by name)
ModuleNames == <<"bad_pixel_map", "dark_correction", "flat_correction">>

\* pipeline_slot values a module may declare; 0 is the registry's default for
\* a module that declares none
SlotChoices == {0, DARK_SLOT, FLAT_SLOT, BAD_PIXEL_SLOT}

\* discover_modules: one info record per module, cfg gives what each module
\* declares and whether the settings enable it
Discovered(cfg) ==
    [i \in 1..Len(ModuleNames) |->
        [name |-> ModuleNames[i], slot |-> cfg[i].slot,
         enabled |-> cfg[i].enabled]]

\* list.sort(key=pipeline_slot) is stable: m goes behind every entry whose
\* slot is not larger
RECURSIVE InsertBySlot(_, _)
InsertBySlot(sorted, m) ==
    IF sorted = <<>> THEN <<m>>
    ELSE IF Head(sorted).slot <= m.slot
         THEN <<Head(sorted)>> \o InsertBySlot(Tail(sorted), m)
         ELSE <<m>> \o sorted

RECURSIVE SortBySlot(_)
SortBySlot(s) ==
    IF s = <<>> THEN <<>>
    ELSE InsertBySlot(SortBySlot(SubSeq(s, 1, Len(s) - 1)), s[Len(s)])

\* _build_ui: the enabled alteration modules sorted by slot; every one of them
\* is appended, whatever its slot
BuildPipeline(discovered) ==
    LET enabled == SelectSeq(discovered, LAMBDA m : m.enabled)
        sorted  == SortBySlot(enabled)
    IN  [i \in 1..Len(sorted) |-> [slot |-> sorted[i].slot,
                                    name |-> sorted[i].name]]

\* a frame is one integer; the stage of the k-th module appends the digit k
\* to it, so a processed frame spells the stages that ran on it, in order
StageBase == 10
\* the distortion modules (pincushion 450, mustache 455, autocrop 500)
DistortionNames == <<"pincushion", "mustache", "autocrop">>
AllStageNames == ModuleNames \o DistortionNames
StageId(name) == CHOOSE i \in 1..Len(AllStageNames) : AllStageNames[i] = name

\* step(frame, self): process_frame of one module
Step(name, frame) == frame * StageBase + StageId(name)

\* variant: the loop stops behind the stage at max_slot instead of before it
RECURSIVE RunPrefix_Inclusive(_, _, _)
RunPrefix_Inclusive(p, frame, max_slot) ==
    IF p = <<>> \/ Head(p).slot > max_slot THEN frame
    ELSE RunPrefix_Inclusive(Tail(p), Step(Head(p).name, frame), max_slot)

\* _push_frame, capture branch: the stages in list order up to the first one
\* with slot >= max_slot
RECURSIVE RunPrefix(_, _, _)
RunPrefix(p, frame, max_slot) ==
    IF p = <<>> \/ Head(p).slot >= max_slot THEN frame
    ELSE RunPrefix(Tail(p), Step(Head(p).name, frame), max_slot)

\* _push_frame, live branch: every stage in list order
RECURSIVE RunLive(_, _)
RunLive(p, frame) ==
    IF p = <<>> THEN frame ELSE RunLive(Tail(p), Step(Head(p).name, frame))

\* variant: the stage at the start slot runs again (slot < start is skipped)
RECURSIVE ContinueFromSlot_Inclusive(_, _, _)
ContinueFromSlot_Inclusive(p, frame, start_slot_exclusive) ==
    IF p = <<>> THEN frame
    ELSE IF Head(p).slot < start_slot_exclusive
         THEN ContinueFromSlot_Inclusive(Tail(p), frame, start_slot_exclusive)
         ELSE ContinueFromSlot_Inclusive(Tail(p), Step(Head(p).name, frame),
                                         start_slot_exclusive)

\* _continue_pipeline_from_slot: every stage with slot > start_slot_exclusive,
\* in list order (np.asarray(frame, float32) leaves a float32 frame as it is)
RECURSIVE ContinueFromSlot(_, _, _)
ContinueFromSlot(p, frame, start_slot_exclusive) ==
    IF p = <<>> THEN frame
    ELSE IF Head(p).slot <= start_slot_exclusive
         THEN ContinueFromSlot(Tail(p), frame, start_slot_exclusive)
         ELSE ContinueFromSlot(Tail(p), Step(Head(p).name, frame),
                               start_slot_exclusive)

\* _pipeline_module_slots.get(name), with the fallbacks: the slot of the
\* module in the pipeline, -1 when it is not there
ModuleSlot(p, name) ==
    IF \E i \in 1..Len(p) : p[i].name = name
    THEN p[CHOOSE i \in 1..Len(p) : p[i].name = name].slot
    ELSE -1

\* _continue_pipeline_from_module
ContinueFromModule(p, name, frame) ==
    ContinueFromSlot(p, frame, ModuleSlot(p, name))

\* _push_frame in live mode (capture_max_slot is None)
PushLive(f) ==
    /\ frame_buffer' = BufferAfterPush(frame_buffer, integration_n,
                                       RunLive(alteration_pipeline, f))
    /\ display_frame' = UpdateIntegratedDisplay(frame_buffer', display_frame)
    /\ new_frame_ready' = TRUE

\* _push_frame in prefix-only mode: collect, set the event when enough
PushCapture(f) ==
    /\ capture' = [capture EXCEPT
                     !.collect =
                        Append(@, RunPrefix(alteration_pipeline, f,
                                            capture.max_slot)),
                     !.ready = @ \/ Len(capture.collect) + 1 >= capture.n]
    /\ UNCHANGED <<frame_buffer, display_frame, new_frame_ready>>

\* _push_frame: routed by _capture_max_slot
PushFrame(f) ==
    IF capture.max_slot # 0
    THEN PushCapture(f)
    ELSE PushLive(f) /\ UNCHANGED capture

\* clear_frame_buffer
ClearFrameBuffer ==
    /\ frame_buffer' = <<>>
    /\ display_frame' = NoFrame

NoCapture == [max_slot |-> 0, collect |-> <<>>, n |-> 0, ready |-> FALSE,
              skip_beam |-> FALSE]

\* ------------------------------------------------------------- beam supply
\* beam_supply is registered and wants_auto_on_off()
HasAuto == beam.registered /\ beam.auto

\* ExampleCore.set_beam_on(True): restarts the run-up to beam ready
TurnOn(b) == [b EXCEPT !.on = TRUE, !.ready = FALSE]

\* BeamSupplyAdapter.turn_off -> ExampleCore.set_beam_on(False)
TurnOff(b) == [b EXCEPT !.on = FALSE, !.ready = FALSE]

\* ExampleCore.get_state: beam_ready once the run-up delay has elapsed
BeamBecomesReady ==
    /\ beam.on /\ ~beam.ready
    /\ beam' = [beam EXCEPT !.ready = TRUE]
    /\ UNCHANGED <<acq_mode, prev_acq_mode, acq_stop, integration_n,
                   frame_buffer, display_frame, last_captured_frame,
                   new_frame_ready, fail_reason, keep_beam_on, cam_connected,
                   capture, pc, req, ct, ri_result, cal_result, workers,
                   tick_pc, ops, stops, acq_seq, hist,
                   alteration_pipeline, refs, bpm, shp, pcache, sig, snap, save, psu>>

\* ------------------------------------------------ reference store (dark/flat)
\* Exposure times are kept in tenths of a second and distances in hundredths,
\* so that abs(dt) + abs(dg)/100.0 is computed exactly: 1.5 s is 15 and the
\* distance 4.5 is 450.
DARK_FLAT_MATCH_THRESHOLD == 100

Kinds == {"dark", "flat"}
KeyTimes == {10, 15}
KeyGains == {100}
QueryTimes == {10, 12, 50}
QueryGains == {100, 200}
FrameSizes == {<<2400, 2400>>, <<1920, 1080>>}
LegacySizes == {<<1920, 1080>>}

NoKey == <<>>
NoField == [loaded |-> FALSE, aw |-> 0, ah |-> 0, t |-> 0, g |-> 0]

Abs(x) == IF x < 0 THEN -x ELSE x

\* dark_{t}_{g}_{w}x{h}.npy holds an array of that size; the legacy names
\* dark_{t}_{g}.npy carry no size (w = h = 0), whatever array they hold
NamedFiles ==
    {[t |-> t, g |-> g, w |-> d[1], h |-> d[2], aw |-> d[1], ah |-> d[2]] :
        t \in KeyTimes, g \in KeyGains, d \in FrameSizes}
LegacyFiles ==
    {[t |-> t, g |-> g, w |-> 0, h |-> 0, aw |-> d[1], ah |-> d[2]] :
        t \in KeyTimes, g \in KeyGains, d \in LegacySizes}
RefFiles == NamedFiles \cup LegacyFiles

FileName(f) == <<f.t, f.g, f.w, f.h>>

\* a directory listing in glob order: no two files share a name
Listings(n) ==
    {s \in UNION {[1..k -> RefFiles] : k \in 0..n} :
        \A i, j \in 1..Len(s) : FileName(s[i]) = FileName(s[j]) => i = j}

distance_time_gain_TimeOnly(t1, g1, t2, g2) == Abs(t1 - t2) * 10

distance_time_gain(t1, g1, t2, g2) == Abs(t1 - t2) * 10 + Abs(g1 - g2)

\* scan_dir: a name that encodes a size is skipped when the size differs
scan_dir(files, width, height) ==
    SelectSeq(files, LAMBDA f :
        ~(f.w # 0 /\ width > 0 /\ height > 0 /\ (f.w # width \/ f.h # height)))

NoBest == [found |-> FALSE, at |-> 0, file |-> NoField, dist |-> 0, tg |-> NoKey]

RECURSIVE BestFrom_LastWins(_, _, _, _, _)
BestFrom_LastWins(all_c, i, t, g, best) ==
    IF i > Len(all_c) THEN best
    ELSE LET d == distance_time_gain(t, g, all_c[i].t, all_c[i].g)
         IN BestFrom_LastWins(all_c, i + 1, t, g,
                IF ~best.found \/ d <= best.dist
                THEN [found |-> TRUE, at |-> i, file |-> all_c[i], dist |-> d,
                      tg |-> <<all_c[i].t, all_c[i].g>>]
                ELSE best)

\* the loop of _find_nearest_dark / _find_nearest_flat: best_dist starts at inf, d < best_dist
RECURSIVE BestFrom(_, _, _, _, _)
BestFrom(all_c, i, t, g, best) ==
    IF i > Len(all_c) THEN best
    ELSE LET d == distance_time_gain(t, g, all_c[i].t, all_c[i].g)
         IN BestFrom(all_c, i + 1, t, g,
                IF ~best.found \/ d < best.dist
                THEN [found |-> TRUE, at |-> i, file |-> all_c[i], dist |-> d,
                      tg |-> <<all_c[i].t, all_c[i].g>>]
                ELSE best)

Candidates(r) ==
    scan_dir(r.cam_dir, r.frame_width, r.frame_height)
        \o scan_dir(r.top_dir, r.frame_width, r.frame_height)

find_nearest(r) == BestFrom(Candidates(r), 1, r.integration_time, r.gain, NoBest)

ArrayOf(f) == [loaded |-> TRUE, aw |-> f.aw, ah |-> f.ah, t |-> f.t, g |-> f.g]

\* _load_dark_field / _load_flat_field
load_field_Unchecked(r) ==
    LET res == find_nearest(r)
    IN IF res.found
       THEN [r EXCEPT !.field = ArrayOf(res.file), !.loaded_time_gain = res.tg,
                      !.nearest_time_gain = NoKey]
       ELSE [r EXCEPT !.field = NoField, !.loaded_time_gain = NoKey,
                      !.nearest_time_gain = NoKey]

load_field(r) ==
    LET res == find_nearest(r)
        w == r.frame_width
        h == r.frame_height
    IN IF res.found /\ res.dist <= DARK_FLAT_MATCH_THRESHOLD
       THEN IF w > 0 /\ h > 0 /\ (res.file.ah # h \/ res.file.aw # w)
            THEN [r EXCEPT !.field = NoField, !.loaded_time_gain = NoKey,
                           !.nearest_time_gain = NoKey]
            ELSE [r EXCEPT !.field = ArrayOf(res.file),
                           !.loaded_time_gain = res.tg,
                           !.nearest_time_gain = NoKey]
       ELSE [r EXCEPT !.field = NoField, !.loaded_time_gain = NoKey,
                      !.nearest_time_gain = IF res.found THEN res.tg ELSE NoKey]

\* _dark_status_text / _flat_status_text: the f-string and its two values
status_text(r) ==
    IF r.field.loaded /\ r.loaded_time_gain # NoKey
    THEN [kind |-> r.kind, text |-> "(Xs @ Y): Loaded",
          X |-> r.loaded_time_gain[1], Y |-> r.loaded_time_gain[2]]
    ELSE IF r.nearest_time_gain # NoKey
         THEN [kind |-> r.kind, text |-> "None (nearest Xs @ Y too far)",
               X |-> r.nearest_time_gain[1], Y |-> r.nearest_time_gain[2]]
         ELSE [kind |-> r.kind, text |-> "None", X |-> 0, Y |-> 0]

\* _apply_dark / _apply_flat behind the stage's auto-apply switch: the loaded
\* array is used on a frame of the current frame size
InEffect(r) ==
    /\ r.auto_apply
    /\ r.field.loaded
    /\ r.field.aw = r.frame_width /\ r.field.ah = r.frame_height

\* XrayGUI.__init__ and _build_ui: 1 s exposure, the lookup run once
FreshRefs(kind, cam, top, t, g, d) ==
    load_field([kind |-> kind, cam_dir |-> cam, top_dir |-> top,
                integration_time |-> t, gain |-> g,
                frame_width |-> d[1], frame_height |-> d[2],
                field |-> NoField, loaded_time_gain |-> NoKey,
                nearest_time_gain |-> NoKey, auto_apply |-> TRUE])

NoRefs == FreshRefs("dark", <<>>, <<>>, 10, 0, <<2400, 2400>>)

RefsRest ==
    UNCHANGED <<acq_mode, prev_acq_mode, acq_stop, integration_n, frame_buffer,
                display_frame, last_captured_frame, new_frame_ready,
                fail_reason, keep_beam_on, cam_connected, beam, capture, pc,
                req, ct, ri_result, cal_result, workers, tick_pc, ops, stops,
                acq_seq, alteration_pipeline, bpm, hist, shp, pcache, sig, snap, save, psu>>

\* _cb_integ_time_changed: new exposure, then _on_dark_flat_params_changed
cb_integ_time_changed(t) ==
    /\ t # refs.integration_time
    /\ refs' = load_field([refs EXCEPT !.integration_time = t])
    /\ RefsRest

\* the detector's gain slider (_cb_gain): trigger_dark_flat_reload
cb_gain(g) ==
    /\ g # refs.gain
    /\ refs' = load_field([refs EXCEPT !.gain = g])
    /\ RefsRest

\* the detector's ROI callback: set_frame_size, trigger_dark_flat_reload
roi_cb(d) ==
    /\ d # <<refs.frame_width, refs.frame_height>>
    /\ refs' = load_field([refs EXCEPT !.frame_width = d[1], !.frame_height = d[2]])
    /\ RefsRest

\* load_dark_field_from_path / load_flat_field_from_path on a file the user
\* picks: only the array size is compared
load_field_from_path(f) ==
    /\ refs' = IF refs.frame_width > 0 /\ refs.frame_height > 0
                    /\ (f.ah # refs.frame_height \/ f.aw # refs.frame_width)
               THEN refs
               ELSE [refs EXCEPT !.field = ArrayOf(f),
                                 !.loaded_time_gain = NoKey,
                                 !.nearest_time_gain = NoKey]
    /\ RefsRest

RemoveName(files, nm) == SelectSeq(files, LAMBDA f : FileName(f) # nm)

InsertAt(files, i, f) == SubSeq(files, 1, i) \o <<f>> \o SubSeq(files, i + 1, Len(files))

\* capture_dark / capture_flat once the frames are averaged: set_dark_field,
\* then _save_dark_field writes dark_{t}_{g}_{w}x{h}.npy in the detector's
\* directory (replacing a file of that name) and records the key as loaded
capture_and_save(i) ==
    LET new == [t |-> refs.integration_time, g |-> refs.gain,
                w |-> refs.frame_width, h |-> refs.frame_height,
                aw |-> refs.frame_width, ah |-> refs.frame_height]
        kept == RemoveName(refs.cam_dir, FileName(new))
    IN /\ Len(kept) < MaxCamFiles
       /\ i \in 0..Len(kept)
       /\ refs' = [refs EXCEPT !.cam_dir = InsertAt(kept, i, new),
                               !.field = ArrayOf(new),
                               !.loaded_time_gain = <<new.t, new.g>>,
                               !.nearest_time_gain = NoKey]
       /\ RefsRest

\* _cb_clear_dark / _cb_clear_flat: drop the loaded reference and unlink the
\* file named by the current key
cb_clear ==
    /\ refs' = [refs EXCEPT
                  !.cam_dir = RemoveName(@, <<refs.integration_time, refs.gain,
                                              refs.frame_width, refs.frame_height>>),
                  !.field = NoField, !.loaded_time_gain = NoKey,
                  !.nearest_time_gain = NoKey]
    /\ RefsRest

\* the stage's auto-apply checkbox
cb_auto_apply ==
    /\ refs' = [refs EXCEPT !.auto_apply = ~@]
    /\ RefsRest

\* ------------------------------------------------------------ bad-pixel stage
\* A frame is its shape and its pixels; pixel values are counted in halves, so
\* that the median of an even number of neighbours is a whole number.
Grid(h, w) == (1..h) \X (1..w)

HalfCounts == {2 * v : v \in 0..MaxPixel}

Frames(h, w) == {[h |-> h, w |-> w, px |-> p] : p \in [Grid(h, w) -> HalfCounts]}

\* masks of a shape with at most MaxBad bad pixels (True = bad)
Masks(h, w) ==
    {[h |-> h, w |-> w, px |-> p] :
        p \in {q \in [Grid(h, w) -> BOOLEAN] :
                  Cardinality({c \in Grid(h, w) : q[c]}) <= MaxBad}}

NoMask == [h |-> 0, w |-> 0, px |-> <<>>]

\* the pixels of the 3x3 window around (y, x), in the order of the two loops
Window(y, x) ==
    <<<<y - 1, x - 1>>, <<y - 1, x>>, <<y - 1, x + 1>>,
      <<y, x - 1>>, <<y, x + 1>>,
      <<y + 1, x - 1>>, <<y + 1, x>>, <<y + 1, x + 1>>>>

\* vals: the window's pixels that are inside the frame and not bad
GoodNeighbours(frame, mask, y, x) ==
    LET inside == SelectSeq(Window(y, x), LAMBDA c :
                      /\ c[1] \in 1..frame.h /\ c[2] \in 1..frame.w
                      /\ ~mask.px[c])
    IN [i \in 1..Len(inside) |-> frame.px[inside[i]]]

\* np.median
Median(vals) ==
    LET s == SortSeq(vals, LAMBDA a, b : a < b)
        n == Len(s)
    IN IF n % 2 = 1 THEN s[(n + 1) \div 2]
       ELSE (s[n \div 2] + s[n \div 2 + 1]) \div 2

\* a 3x3 median of the good neighbours written to every pixel
replace_bad_pixels_Everywhere(frame, mask) ==
    IF mask = NoMask \/ \A c \in Grid(mask.h, mask.w) : ~mask.px[c] THEN frame
    ELSE IF <<frame.h, frame.w>> # <<mask.h, mask.w>> THEN frame
    ELSE [frame EXCEPT !.px = [c \in Grid(frame.h, frame.w) |->
            LET vals == GoodNeighbours(frame, mask, c[1], c[2])
            IN IF vals # <<>> THEN Median(vals) ELSE frame.px[c]]]

\* replace_bad_pixels: bad pixels get the median of their good neighbours
replace_bad_pixels(frame, mask) ==
    IF mask = NoMask \/ \A c \in Grid(mask.h, mask.w) : ~mask.px[c] THEN frame
    ELSE IF <<frame.h, frame.w>> # <<mask.h, mask.w>> THEN frame
    ELSE [frame EXCEPT !.px = [c \in Grid(frame.h, frame.w) |->
            LET vals == GoodNeighbours(frame, mask, c[1], c[2])
            IN IF mask.px[c] /\ vals # <<>> THEN Median(vals) ELSE frame.px[c]]]

\* bad_pixel_map.process_frame
bad_pixel_process_frame(frame, mask, auto_correct) ==
    IF ~auto_correct THEN frame
    ELSE IF mask = NoMask \/ <<mask.h, mask.w>> # <<frame.h, frame.w>> THEN frame
    ELSE replace_bad_pixels(frame, mask)

NoBpm == [frame |-> [h |-> 0, w |-> 0, px |-> <<>>], mask |-> NoMask,
          auto_correct |-> TRUE, out |-> [h |-> 0, w |-> 0, px |-> <<>>],
          ran |-> FALSE]

BpmRest ==
    UNCHANGED <<acq_mode, prev_acq_mode, acq_stop, integration_n, frame_buffer,
                display_frame, last_captured_frame, new_frame_ready,
                fail_reason, keep_beam_on, cam_connected, beam, capture, pc,
                req, ct, ri_result, cal_result, workers, tick_pc, ops, stops,
                acq_seq, alteration_pipeline, refs, shp, hist, pcache, sig, snap, save, psu>>

\* the pipeline step of the bad-pixel stage on the frame at hand
BpmProcess ==
    /\ ~bpm.ran
    /\ bpm' = [bpm EXCEPT !.ran = TRUE,
                 !.out = bad_pixel_process_frame(bpm.frame, bpm.mask, bpm.auto_correct)]
    /\ BpmRest

\* the next frame reaches the stage
BpmNextFrame(f) ==
    /\ bpm.ran
    /\ bpm' = [bpm EXCEPT !.frame = f, !.ran = FALSE]
    /\ BpmRest

\* the auto-correct checkbox
BpmToggle ==
    /\ bpm' = [bpm EXCEPT !.auto_correct = ~@]
    /\ BpmRest

\* Clear of the bad-pixel map
BpmClearMask ==
    /\ bpm.mask # NoMask
    /\ bpm' = [bpm EXCEPT !.mask = NoMask]
    /\ BpmRest

\* ---------------------------------------------------------------- frame sizes
\* A frame is followed by its size <<width, height>> only.
ASI_ROI_MIN_W == 64
ASI_ROI_MIN_H == 64
SensorW == 1920
SensorH == 1080

Max2(a, b) == IF a > b THEN a ELSE b
Min2(a, b) == IF a < b THEN a ELSE b

\* _apply_roi: width rounded up to a multiple of 8, height to a multiple of 2,
\* at least the minimum, at most the sensor
apply_roi(width, height) ==
    <<Min2(Max2(ASI_ROI_MIN_W, ((Max2(1, width) + 7) \div 8) * 8), SensorW),
      Min2(Max2(ASI_ROI_MIN_H, ((Max2(1, height) + 1) \div 2) * 2), SensorH)>>

\* widths and heights typed into the ROI inputs (x_end - x_start, y_end - y_start)
RoiRequests == {<<64, 64>>, <<100, 64>>}

\* crop rectangles <<x_start, y_start, x_end, y_end>>; all zero means no crop
NoCrop == <<0, 0, 0, 0>>
CropChoices == {NoCrop, <<0, 0, 50, 50>>, <<8, 0, 2000, 2000>>}

\* _apply_autocrop: the size of frame[y_start:y_end, x_start:x_end] after the clamps
apply_autocrop(size, crop) ==
    LET w == size[1]
        h == size[2]
    IN IF crop[3] <= crop[1] \/ crop[4] <= crop[2] THEN size
       ELSE LET x_start == Max2(0, Min2(crop[1], w - 1))
                x_end == Max2(x_start + 1, Min2(crop[3], w))
                y_start == Max2(0, Min2(crop[2], h - 1))
                y_end == Max2(y_start + 1, Min2(crop[4], h))
            IN <<x_end - x_start, y_end - y_start>>

\* autocrop.process_frame on a frame of the detector's current size
ProcessedSize(s) ==
    IF s.autocrop_auto_apply THEN apply_autocrop(s.roi, s.crop) ELSE s.roi

\* frame_buffer.append(frame) and the trim to integration_n
Appended(buf, size, n) ==
    LET b == Append(buf, size)
    IN IF Len(b) > n THEN SubSeq(b, Len(b) - n + 1, Len(b)) ELSE b

\* np.mean(frame_buffer, axis=0) needs frames of one size
MeanDefined(buf) == \A i, j \in 1..Len(buf) : buf[i] = buf[j]

NoShp == [roi |-> <<SensorW, SensorH>>, crop |-> NoCrop,
          autocrop_auto_apply |-> TRUE, buffer |-> <<>>, n |-> 1,
          acquiring |-> FALSE]

ShpRest ==
    UNCHANGED <<acq_mode, prev_acq_mode, acq_stop, integration_n, frame_buffer,
                display_frame, last_captured_frame, new_frame_ready,
                fail_reason, keep_beam_on, cam_connected, beam, capture, pc,
                req, ct, ri_result, cal_result, workers, tick_pc, ops, stops,
                acq_seq, alteration_pipeline, refs, bpm, hist, pcache, sig, snap, save, psu>>

\* _start_acquisition: the buffer is cleared, the worker starts
ShpStart ==
    /\ ~shp.acquiring
    /\ shp' = [shp EXCEPT !.acquiring = TRUE, !.buffer = <<>>]
    /\ ShpRest

\* submit_raw_frame -> _push_frame: the processed frame is appended, the
\* buffer trimmed, and _update_integrated_display takes the mean; when that
\* raises, the worker's finally sets the acquisition idle
ShpPush ==
    /\ shp.acquiring
    /\ LET b == Appended(shp.buffer, ProcessedSize(shp), shp.n)
       IN shp' = [shp EXCEPT !.buffer = b, !.acquiring = MeanDefined(b)]
    /\ ShpRest

\* the worker has delivered its frames, or Stop was clicked
ShpDone ==
    /\ shp.acquiring
    /\ shp' = [shp EXCEPT !.acquiring = FALSE]
    /\ ShpRest

\* autocrop's _apply_crop callback of the four inputs
ShpCrop(c) ==
    /\ c # shp.crop
    /\ shp' = [shp EXCEPT !.crop = c]
    /\ ShpRest

\* autocrop's auto-apply checkbox
ShpAutoCrop ==
    /\ shp' = [shp EXCEPT !.autocrop_auto_apply = ~@]
    /\ ShpRest

\* the detector's ROI callback: _apply_roi
ShpRoi(r) ==
    /\ apply_roi(r[1], r[2]) # shp.roi
    /\ shp' = [shp EXCEPT !.roi = apply_roi(r[1], r[2])]
    /\ ShpRest

\* ------------------------------------------- per-stage cache and frame token
StageSet == {ModuleNames[i] : i \in 1..Len(ModuleNames)}

NoEntry == [set |-> FALSE, token |-> 0, slot |-> 0, frame |-> 0]

\* process_frame of a module: with its auto-apply switch off the frame is
\* handed on as it came
StepAuto(name, frame, auto) == IF auto[name] THEN Step(name, frame) ELSE frame

\* the stage loop of _push_frame (max_slot = 0: live, every stage; else the
\* break at slot >= max_slot): the cache entry is written, then the step runs
RECURSIVE push_stages(_, _, _, _, _, _)
push_stages(p, frame, max_slot, token, cache, auto) ==
    IF p = <<>> \/ (max_slot # 0 /\ Head(p).slot >= max_slot)
    THEN [frame |-> frame, cache |-> cache]
    ELSE push_stages(Tail(p), StepAuto(Head(p).name, frame, auto),
                     max_slot, token,
                     [cache EXCEPT ![Head(p).name] =
                         [set |-> TRUE, token |-> token, slot |-> Head(p).slot,
                          frame |-> frame]],
                     auto)

\* _continue_pipeline_from_slot of the window object, the one AppAPI calls:
\* the stages behind start_slot_exclusive run, the cache is not touched
RECURSIVE continue_pipeline_from_slot(_, _, _, _)
continue_pipeline_from_slot(p, frame, start_slot_exclusive, auto) ==
    IF p = <<>> THEN frame
    ELSE IF Head(p).slot <= start_slot_exclusive
         THEN continue_pipeline_from_slot(Tail(p), frame, start_slot_exclusive, auto)
         ELSE continue_pipeline_from_slot(Tail(p),
                  StepAuto(Head(p).name, frame, auto), start_slot_exclusive, auto)

NoPush == [pc |-> "idle", tmp |-> 0, token |-> 0, frame |-> 0, max_slot |-> 0]

\* holders of frame_lock: a detector worker k, the UI thread, nobody
UiThread == 0
NoHolder == -1

NoApply == [pc |-> "idle", name |-> "", frame |-> 0]

NoCache == [token |-> 0, cache |-> [n \in StageSet |-> NoEntry],
            auto |-> [n \in StageSet |-> TRUE],
            w |-> [k \in Workers |-> NoPush], given |-> <<>>,
            lock |-> NoHolder, ui |-> NoApply]

CacheRest ==
    UNCHANGED <<acq_mode, prev_acq_mode, acq_stop, integration_n,
                last_captured_frame, fail_reason, keep_beam_on, cam_connected,
                beam, pc, req, ct, ri_result, cal_result, workers, tick_pc,
                ops, stops, acq_seq, alteration_pipeline, refs, bpm, shp, hist, sig, snap, save, psu>>

PushesBegun == Len(pcache.given) + Cardinality({k \in Workers : pcache.w[k].pc \in {"loaded", "stored"}})

\* _push_frame of worker k, line 642-643: max_slot is read, and
\* self._pipeline_frame_token += 1 loads the token
PushLoad(k, f) ==
    /\ pcache.w[k].pc = "idle"
    /\ PushesBegun < MaxCachePush
    /\ pcache' = [pcache EXCEPT !.w[k] = [pc |-> "loaded", tmp |-> pcache.token,
                                          token |-> 0, frame |-> f,
                                          max_slot |-> capture.max_slot]]
    /\ UNCHANGED <<frame_buffer, display_frame, new_frame_ready, capture>>
    /\ CacheRest

\* ... and stores the loaded value plus one
PushStore(k) ==
    /\ pcache.w[k].pc = "loaded"
    /\ pcache' = [pcache EXCEPT !.token = pcache.w[k].tmp + 1,
                                !.w[k].pc = "stored"]
    /\ UNCHANGED <<frame_buffer, display_frame, new_frame_ready, capture>>
    /\ CacheRest

\* line 644: frame_token = self._pipeline_frame_token
PushRead(k) ==
    /\ pcache.w[k].pc = "stored"
    /\ pcache' = [pcache EXCEPT !.w[k].token = pcache.token,
                                !.w[k].pc = "stages",
                                !.given = Append(@, pcache.token)]
    /\ UNCHANGED <<frame_buffer, display_frame, new_frame_ready, capture>>
    /\ CacheRest

\* lines 646-692: the stage loop with its cache writes; frame_lock is not
\* taken here
PushStages(k) ==
    /\ pcache.w[k].pc = "stages"
    /\ LET me == pcache.w[k]
           res == push_stages(alteration_pipeline, me.frame, me.max_slot,
                              me.token, pcache.cache, pcache.auto)
       IN pcache' = [pcache EXCEPT !.cache = res.cache,
                                   !.w[k].pc = "lock",
                                   !.w[k].frame = res.frame]
    /\ UNCHANGED <<frame_buffer, display_frame, new_frame_ready, capture>>
    /\ CacheRest

\* with self.frame_lock: (lines 667, 694)
PushLock(k) ==
    /\ pcache.w[k].pc = "lock"
    /\ pcache.lock = NoHolder
    /\ pcache' = [pcache EXCEPT !.lock = k, !.w[k].pc = "tail"]
    /\ UNCHANGED <<frame_buffer, display_frame, new_frame_ready, capture>>
    /\ CacheRest

\* the locked tail: the frame goes to the capture collection (668-670) or to
\* the buffer (695-701), the lock is released, the signal is set (712)
PushTail(k) ==
    /\ pcache.w[k].pc = "tail"
    /\ LET me == pcache.w[k]
       IN /\ pcache' = [pcache EXCEPT !.lock = NoHolder, !.w[k] = NoPush]
          /\ IF me.max_slot # 0
             THEN /\ capture' = [capture EXCEPT
                                   !.collect = Append(@, me.frame),
                                   !.ready = @ \/ Len(capture.collect) + 1 >= capture.n]
                  /\ UNCHANGED <<frame_buffer, display_frame, new_frame_ready>>
             ELSE /\ frame_buffer' = BufferAfterPush(frame_buffer, integration_n, me.frame)
                  /\ display_frame' = UpdateIntegratedDisplay(frame_buffer', display_frame)
                  /\ new_frame_ready' = TRUE
                  /\ UNCHANGED capture
    /\ CacheRest

\* a module's Apply button (_cb_apply): get_module_incoming_image reads the
\* module's cache entry, frame_lock not taken, and the module's step runs on it
cb_apply(name) ==
    /\ pcache.ui.pc = "idle"
    /\ pcache.cache[name].set
    /\ pcache' = [pcache EXCEPT !.ui = [pc |-> "output", name |-> name,
                                        frame |-> Step(name, pcache.cache[name].frame)]]
    /\ UNCHANGED <<frame_buffer, display_frame, new_frame_ready, capture>>
    /\ CacheRest

\* _output_manual_from_module: the stages behind the module run on the
\* outcome, the result is displayed under frame_lock
output_manual_from_module ==
    /\ pcache.ui.pc = "output"
    /\ pcache.lock = NoHolder
    /\ display_frame' =
          <<continue_pipeline_from_slot(alteration_pipeline, pcache.ui.frame,
                ModuleSlot(alteration_pipeline, pcache.ui.name), pcache.auto), 1>>
    /\ pcache' = [pcache EXCEPT !.ui = NoApply]
    /\ UNCHANGED <<frame_buffer, new_frame_ready, capture>>
    /\ CacheRest

\* the stages whose auto-apply checkbox is clicked in the cache runs
ToggledStages == {"dark_correction"}

\* a module's auto-apply checkbox
CacheToggle(name) ==
    /\ pcache' = [pcache EXCEPT !.auto[name] = ~@]
    /\ UNCHANGED <<frame_buffer, display_frame, new_frame_ready, capture>>
    /\ CacheRest

\* a calibration capture sets _capture_max_slot, its end resets it to None
CacheSetCapture(max_slot) ==
    /\ max_slot # capture.max_slot
    /\ capture' = [NoCapture EXCEPT !.max_slot = max_slot, !.n = 1]
    /\ UNCHANGED <<pcache, frame_buffer, display_frame, new_frame_ready>>
    /\ CacheRest

\* ------------------------------------------- new_frame_ready: push and tick
\* variant: the event is set before the frame is pushed
PushOrder_SetFirst == <<"set", "push">>

\* the tail of _push_frame in live mode: the locked block (append, trim,
\* integrate), then new_frame_ready.set()
PushOrder == <<"push", "set">>

NoPusher == [done |-> 0, idx |-> 0]

NoSig == [w |-> [k \in Workers |-> NoPusher], ui |-> "idle", frames |-> <<>>,
          begun |-> 0, raised |-> {}, consumed |-> {}, shown |-> NoFrame]

SigRest ==
    UNCHANGED <<acq_mode, prev_acq_mode, acq_stop, integration_n,
                last_captured_frame, fail_reason, keep_beam_on, cam_connected,
                beam, capture, pc, req, ct, ri_result, cal_result, workers,
                tick_pc, ops, stops, acq_seq, alteration_pipeline, refs, bpm,
                shp, pcache, hist, snap, save, psu>>

\* a detector worker enters the tail of _push_frame with its next frame (the
\* frame carries the number of the push)
SigBegin(k) ==
    /\ sig.w[k] = NoPusher
    /\ sig.begun < MaxSignalPush
    /\ sig' = [sig EXCEPT !.begun = @ + 1,
                          !.w[k] = [done |-> 0, idx |-> sig.begun + 1]]
    /\ UNCHANGED <<frame_buffer, display_frame, new_frame_ready>>
    /\ SigRest

\* the next statement of the tail: the locked block of lines 694-701, or
\* new_frame_ready.set() of line 712
SigStep(k) ==
    /\ sig.w[k] # NoPusher
    /\ LET me == sig.w[k]
           what == PushOrder[me.done + 1]
           last == me.done + 1 = Len(PushOrder)
       IN IF what = "push"
          THEN /\ frame_buffer' = BufferAfterPush(frame_buffer, integration_n, me.idx)
               /\ display_frame' = UpdateIntegratedDisplay(frame_buffer', display_frame)
               /\ sig' = [sig EXCEPT !.frames = Append(@, me.idx),
                                     !.w[k] = IF last THEN NoPusher
                                              ELSE [me EXCEPT !.done = @ + 1]]
               /\ UNCHANGED new_frame_ready
          ELSE /\ new_frame_ready' = TRUE
               /\ sig' = [sig EXCEPT !.raised = @ \cup {me.idx},
                                     !.w[k] = IF last THEN NoPusher
                                              ELSE [me EXCEPT !.done = @ + 1]]
               /\ UNCHANGED <<frame_buffer, display_frame>>
    /\ SigRest

\* _render_tick line 2100: if self.new_frame_ready.is_set()
SigTickTest ==
    /\ sig.ui = "idle"
    /\ new_frame_ready
    /\ sig' = [sig EXCEPT !.ui = "seen"]
    /\ UNCHANGED <<frame_buffer, display_frame, new_frame_ready>>
    /\ SigRest

\* line 2101: self.new_frame_ready.clear()
SigTickClear ==
    /\ sig.ui = "seen"
    /\ new_frame_ready' = FALSE
    /\ sig' = [sig EXCEPT !.ui = "cleared", !.raised = {},
                          !.consumed = sig.raised]
    /\ UNCHANGED <<frame_buffer, display_frame>>
    /\ SigRest

\* line 2102: _update_display copies display_frame under frame_lock
SigTickUpdateDisplay ==
    /\ sig.ui = "cleared"
    /\ sig' = [sig EXCEPT !.ui = "idle", !.shown = display_frame]
    /\ UNCHANGED <<frame_buffer, display_frame, new_frame_ready>>
    /\ SigRest

\* ------------------------------------------- the pre-distortion snapshot
\* variant: the snapshot is taken behind the first distortion stage
RECURSIVE live_stages_SnapshotAfterStep(_, _, _)
live_stages_SnapshotAfterStep(p, frame, frame_before_distortion) ==
    IF p = <<>> THEN [frame |-> frame, before |-> frame_before_distortion]
    ELSE live_stages_SnapshotAfterStep(Tail(p), Step(Head(p).name, frame),
             IF Head(p).slot >= DISTORTION_PREVIEW_SLOT /\ frame_before_distortion = 0
             THEN Step(Head(p).name, frame) ELSE frame_before_distortion)

\* the live stage loop of _push_frame: before the first stage with
\* slot >= DISTORTION_PREVIEW_SLOT the frame is copied (0: None)
RECURSIVE live_stages(_, _, _)
live_stages(p, frame, frame_before_distortion) ==
    IF p = <<>> THEN [frame |-> frame, before |-> frame_before_distortion]
    ELSE live_stages(Tail(p), Step(Head(p).name, frame),
             IF Head(p).slot >= DISTORTION_PREVIEW_SLOT /\ frame_before_distortion = 0
             THEN frame ELSE frame_before_distortion)

\* the modules of the snapshot runs with the slots they declare
SnapshotModules ==
    <<[name |-> "dark_correction", slot |-> DARK_SLOT],
      [name |-> "flat_correction", slot |-> FLAT_SLOT],
      [name |-> "pincushion", slot |-> DISTORTION_PREVIEW_SLOT],
      [name |-> "mustache", slot |-> MUSTACHE_SLOT],
      [name |-> "autocrop", slot |-> AUTOCROP_SLOT]>>

\* the pipelines _build_ui can build from them: any subset enabled
SnapshotPipelines ==
    { BuildPipeline([i \in 1..Len(SnapshotModules) |->
          [name |-> SnapshotModules[i].name, slot |-> SnapshotModules[i].slot,
           enabled |-> en[i]]]) :
      en \in [1..Len(SnapshotModules) -> BOOLEAN] }

NoSnap == [before |-> 0, input |-> 0, live |-> FALSE]

SnapRest ==
    UNCHANGED <<acq_mode, prev_acq_mode, acq_stop, integration_n,
                last_captured_frame, fail_reason, keep_beam_on, cam_connected,
                beam, pc, req, ct, ri_result, cal_result, workers, tick_pc,
                ops, stops, acq_seq, alteration_pipeline, refs, bpm, shp,
                pcache, sig, hist, save, psu>>

\* _push_frame with _capture_max_slot None (lines 673-712)
SnapPushLive(f) ==
    /\ capture.max_slot = 0
    /\ LET res == live_stages(alteration_pipeline, f, 0)
       IN /\ snap' = [before |-> IF res.before # 0 THEN res.before ELSE snap.before,
                      input |-> f, live |-> TRUE]
          /\ frame_buffer' = BufferAfterPush(frame_buffer, integration_n, res.frame)
          /\ display_frame' = UpdateIntegratedDisplay(frame_buffer', display_frame)
          /\ new_frame_ready' = TRUE
    /\ UNCHANGED capture
    /\ SnapRest

\* _push_frame during a calibration capture (lines 646-671): the snapshot is
\* left alone
SnapPushCapture(f) ==
    /\ capture.max_slot # 0
    /\ Len(capture.collect) < MaxCollect
    /\ PushCapture(f)
    /\ snap' = [snap EXCEPT !.input = f, !.live = FALSE]
    /\ SnapRest

\* a calibration capture sets _capture_max_slot, its end resets it to None
SnapSetCapture(max_slot) ==
    /\ max_slot # capture.max_slot
    /\ capture' = [NoCapture EXCEPT !.max_slot = max_slot, !.n = 1]
    /\ UNCHANGED <<snap, frame_buffer, display_frame, new_frame_ready>>
    /\ SnapRest

\* ------------------------------------------- the debounced settings save
\* the two threads that touch the pending save: the callback thread runs the
\* widget callbacks (_save_settings, _save_windowing_settings_fast, the
\* on_close flush of line 1871), the main thread runs _render_tick and the
\* cleanup of run()
SaveThreads == {"cb", "main"}
SaveScopes == {"window", "full"}

\* __init__ lines 242-245; due: time.monotonic() >= _settings_save_deadline;
\* owed: a full-scope request has returned and no full write followed it;
\* written: the scope of the last write ("none": nothing written yet)
NoSave ==
    [pending |-> FALSE, scope |-> "window", due |-> TRUE,
     th |-> [t \in SaveThreads |->
                [pc |-> "idle", scope |-> "window", force |-> FALSE]],
     owed |-> FALSE, written |-> "none"]

SaveRest ==
    UNCHANGED <<acq_mode, prev_acq_mode, acq_stop, integration_n,
                frame_buffer, display_frame, last_captured_frame,
                new_frame_ready, fail_reason, keep_beam_on, cam_connected,
                beam, capture, pc, req, ct, ri_result, cal_result, workers,
                tick_pc, ops, stops, acq_seq, alteration_pipeline, refs, bpm,
                shp, pcache, sig, snap, psu, hist>>

\* line 345: full scope overrides window-only scope
request_scope(current, scope) ==
    IF scope = "full" \/ current # "full" THEN scope ELSE current

\* a callback calls _request_settings_save(scope) (lines 336-343)
SaveRequestBegin(scope) ==
    /\ save.th["cb"].pc = "idle"
    /\ save' = [save EXCEPT !.th["cb"].pc = "r344",
                            !.th["cb"].scope = scope]
    /\ SaveRest

\* line 344: self._settings_save_pending = True
SaveRequestPending ==
    /\ save.th["cb"].pc = "r344"
    /\ save' = [save EXCEPT !.pending = TRUE, !.th["cb"].pc = "r345"]
    /\ SaveRest

\* lines 345-346
SaveRequestScope ==
    /\ save.th["cb"].pc = "r345"
    /\ save' = [save EXCEPT
                  !.scope = request_scope(save.scope, save.th["cb"].scope),
                  !.th["cb"].pc = "r347"]
    /\ SaveRest

\* line 347: the deadline moves debounce_s (0.35 s) ahead; the call returns
SaveRequestDeadline ==
    /\ save.th["cb"].pc = "r347"
    /\ save' = [save EXCEPT
                  !.due = FALSE,
                  !.owed = @ \/ save.th["cb"].scope = "full",
                  !.th["cb"].pc = "idle"]
    /\ SaveRest

\* the deadline passes
SaveDeadlinePasses ==
    /\ ~save.due
    /\ save' = [save EXCEPT !.due = TRUE]
    /\ SaveRest

\* _flush_pending_settings_save(force) is called: by the tick (line 2111,
\* force False) and the cleanup (line 2183, force True) on the main thread,
\* by on_close (line 1871, force True) on the callback thread; line 351
SaveFlushBegin(t, force) ==
    /\ save.th[t].pc = "idle"
    /\ t = "cb" => force
    /\ save' = [save EXCEPT !.th[t].pc = IF save.pending THEN "f353" ELSE "idle",
                            !.th[t].force = force]
    /\ SaveRest

\* line 353: not due yet and not forced: return
SaveFlushDue(t) ==
    /\ save.th[t].pc = "f353"
    /\ save' = [save EXCEPT !.th[t].pc =
                  IF ~save.th[t].force /\ ~save.due THEN "idle" ELSE "f355"]
    /\ SaveRest

\* line 355: scope = self._settings_save_scope
SaveFlushReadScope(t) ==
    /\ save.th[t].pc = "f355"
    /\ save' = [save EXCEPT !.th[t].scope = save.scope, !.th[t].pc = "f356"]
    /\ SaveRest

\* line 356: self._settings_save_pending = False
SaveFlushClearPending(t) ==
    /\ save.th[t].pc = "f356"
    /\ save' = [save EXCEPT !.pending = FALSE, !.th[t].pc = "f357"]
    /\ SaveRest

\* line 357: self._settings_save_scope = "window"
SaveFlushResetScope(t) ==
    /\ save.th[t].pc = "f357"
    /\ save' = [save EXCEPT !.scope = "window", !.th[t].pc = "f358"]
    /\ SaveRest

\* lines 358-361: _save_windowing_settings_now or _save_settings_now
SaveFlushWrite(t) ==
    /\ save.th[t].pc = "f358"
    /\ save' = [save EXCEPT
                  !.written = save.th[t].scope,
                  !.owed = IF save.th[t].scope = "full" THEN FALSE ELSE @,
                  !.th[t].pc = "idle"]
    /\ SaveRest

\* ------------------------------------------------------- the supply core
\* esp_hv_supply/core.py, PSUCore. Every 'with self._lock' block is one step;
\* what lies between two blocks can be interleaved by the other threads.
\* kV limits are in tenths of a kV, kV setpoints in whole kV, currents in
\* hundredths of a mA / A. Telemetry no code path reads back (spinup_ms,
\* spinup_done, hv_on_time_ms, kv_read, fil_read, last_error) is left out.
PsuClients == {"ui", "wf"}   \* callback thread, workflow thread
NoLock == "free"

\* PSUState defaults (lines 15-53), __init__ (lines 229-239)
NoPsu ==
    [connected |-> FALSE, filament_fault |-> FALSE,
     exposure_active |-> FALSE, beam_ready |-> FALSE,
     beam_on_requested |-> FALSE, hv_out |-> FALSE, hv_val_reached |-> FALSE,
     imaging_window |-> FALSE, ma_close_count |-> 0, ma_read |-> 0,
     kv_set |-> 0, ma_set |-> 0, fil_lim_set |-> 0,
     hard_kv_lim |-> HARD_KV_MAX, hard_ma_lim |-> HARD_MA_MAX,
     hard_fil_lim |-> HARD_FIL_MAX,
     exposure_lock |-> NoLock, tx |-> "none",
     cl |-> [c \in PsuClients |-> [pc |-> "idle", key |-> "kv", val |-> 0]],
     rd |-> [pc |-> "idle", hv |-> FALSE, exposure_active |-> FALSE,
             hv_out |-> FALSE, hv_val_reached |-> FALSE, ma_set |-> 0,
             ma_read |-> 0, already_ready |-> FALSE,
             filament_fault |-> FALSE, kv |-> 0, ma |-> 0, fil |-> 0]]

PsuRest ==
    UNCHANGED <<acq_mode, prev_acq_mode, acq_stop, integration_n,
                frame_buffer, display_frame, last_captured_frame,
                new_frame_ready, fail_reason, keep_beam_on, cam_connected,
                beam, capture, pc, req, ct, ri_result, cal_result, workers,
                tick_pc, ops, stops, acq_seq, alteration_pipeline, refs, bpm,
                shp, pcache, sig, snap, save, hist>>

\* _clamp_int / _clamp_float (lines 272-278)
clamp(v, lo, hi) == Max2(lo, Min2(hi, v))

\* int(round(x)) of a limit given in tenths: Python rounds half to even
RoundTenths(t) ==
    LET q == t \div 10
        r == t % 10
    IN IF r < 5 THEN q
       ELSE IF r > 5 THEN q + 1
       ELSE IF q % 2 = 0 THEN q ELSE q + 1

\* _current_limits (lines 280-286)
current_limit(x) == IF x > 0 THEN x ELSE 0

\* the fields an exposure start resets (lines 574-583, 618-626)
BeginExposure(s) ==
    [s EXCEPT !.exposure_active = TRUE, !.beam_ready = FALSE,
              !.hv_val_reached = FALSE, !.ma_close_count = 0]

\* the fields an exposure end resets (lines 589-595, 641-647, 372-379)
ClearExposure(s) ==
    [s EXCEPT !.beam_on_requested = FALSE, !.beam_ready = FALSE,
              !.exposure_active = FALSE, !.hv_val_reached = FALSE,
              !.ma_close_count = 0]

ClientAt(c, p) == psu.cl[c].pc = p

\* ---- client calls
\* set_beam_on, lines 561-587 and 589-595: the exposure lock is taken, the
\* state changes under the state lock; the refusals change nothing
set_beam_on(c, on) ==
    /\ ClientAt(c, "idle")
    /\ psu.exposure_lock = NoLock
    /\ psu.connected
    /\ on => ~psu.filament_fault /\ ~psu.exposure_active
    /\ psu' = [(IF on THEN [BeginExposure(psu) EXCEPT !.beam_on_requested = TRUE]
                ELSE ClearExposure(psu))
               EXCEPT !.exposure_lock = c,
                      !.cl[c].pc = IF on THEN "sb_send1" ELSE "sb_send0"]
    /\ PsuRest

\* lines 584-587 / 597-600: the command goes out, the exposure lock is freed
set_beam_on_send(c) ==
    /\ ClientAt(c, "sb_send1") \/ ClientAt(c, "sb_send0")
    /\ psu' = [psu EXCEPT !.tx = IF ClientAt(c, "sb_send1") THEN "BeamOn:1"
                                 ELSE "BeamOn:0",
                          !.exposure_lock = NoLock,
                          !.cl[c].pc = "idle"]
    /\ PsuRest

\* do_exposure, lines 607-626
do_exposure(c) ==
    /\ ClientAt(c, "idle")
    /\ psu.exposure_lock = NoLock
    /\ psu.connected
    /\ ~psu.filament_fault /\ ~psu.exposure_active
    /\ psu' = [BeginExposure(psu) EXCEPT !.exposure_lock = c,
                                         !.cl[c].pc = "de_send"]
    /\ PsuRest

\* line 628
do_exposure_send(c) ==
    /\ ClientAt(c, "de_send")
    /\ psu' = [psu EXCEPT !.tx = "BeamOn:1", !.cl[c].pc = "de_requested"]
    /\ PsuRest

\* lines 629-633
do_exposure_requested(c) ==
    /\ ClientAt(c, "de_requested")
    /\ psu' = [psu EXCEPT !.beam_on_requested = TRUE,
                          !.exposure_lock = NoLock,
                          !.cl[c].pc = "idle"]
    /\ PsuRest

\* exposure_done, lines 635-647
exposure_done(c) ==
    /\ ClientAt(c, "idle")
    /\ psu.exposure_lock = NoLock
    /\ psu.connected
    /\ psu' = [ClearExposure(psu) EXCEPT !.exposure_lock = c,
                                         !.cl[c].pc = "ed_send"]
    /\ PsuRest

\* lines 649-651
exposure_done_send(c) ==
    /\ ClientAt(c, "ed_send")
    /\ psu' = [psu EXCEPT !.tx = "BeamOn:0", !.exposure_lock = NoLock,
                          !.cl[c].pc = "idle"]
    /\ PsuRest

\* estop (lines 602-605) and disconnect_serial (lines 438-439) enter
\* _safe_shutdown; lines 367-370
safe_shutdown(c, disconnect) ==
    /\ ClientAt(c, "idle")
    /\ psu' = [psu EXCEPT !.tx = IF psu.connected THEN "BeamOn:0" ELSE @,
                          !.cl[c].pc = "ss_lock",
                          !.cl[c].key = IF disconnect THEN "disconnect"
                                        ELSE "estop"]
    /\ PsuRest

\* _safe_shutdown, lines 372-382
safe_shutdown_lock(c) ==
    /\ ClientAt(c, "ss_lock")
    /\ psu' = [ClearExposure(psu) EXCEPT !.cl[c].pc = "ss_window"]
    /\ PsuRest

\* _safe_shutdown, line 384; estop returns here
safe_shutdown_window(c) ==
    /\ ClientAt(c, "ss_window")
    /\ psu' = [psu EXCEPT !.imaging_window = FALSE,
                          !.cl[c].key = "kv",
                          !.cl[c].pc = IF psu.cl[c].key = "disconnect"
                                       THEN "dc_transport" ELSE "idle"]
    /\ PsuRest

\* disconnect_serial, lines 440-448
disconnect_serial(c) ==
    /\ ClientAt(c, "dc_transport")
    /\ psu' = [psu EXCEPT !.connected = FALSE, !.hv_out = FALSE,
                          !.cl[c].pc = "idle"]
    /\ PsuRest

\* connect_serial, lines 387-403: the transport is opened
connect_serial(c) ==
    /\ ClientAt(c, "idle")
    /\ psu' = [psu EXCEPT !.connected = TRUE, !.cl[c].pc = "cn_lock"]
    /\ PsuRest

\* connect_serial, lines 405-425: the state of a new connection
connect_serial_lock(c) ==
    /\ ClientAt(c, "cn_lock")
    /\ psu' = [ClearExposure(psu) EXCEPT
                  !.filament_fault = FALSE, !.imaging_window = FALSE,
                  !.hard_kv_lim = HARD_KV_MAX, !.hard_ma_lim = HARD_MA_MAX,
                  !.hard_fil_lim = HARD_FIL_MAX,
                  !.cl[c].pc = "cn_send"]
    /\ PsuRest

\* connect_serial, lines 427-430
connect_serial_send(c) ==
    /\ ClientAt(c, "cn_send")
    /\ psu' = [psu EXCEPT !.tx = "BeamOn:0", !.cl[c].pc = "idle"]
    /\ PsuRest

\* ---- the status-line reader (the rx thread calls _handle_line)
ReaderAt(p) == psu.rd.pc = p
HvoutPayloads == {"true", "false", "overtimelimit", "filamentovercurrent"}

\* _parse_hvout, lines 817-835
parse_hvout(p) ==
    /\ ReaderAt("idle")
    /\ psu.connected
    /\ psu' = [psu EXCEPT !.hv_out = (p = "true"),
                          !.rd.hv = (p = "true"),
                          !.rd.pc = IF p = "filamentovercurrent" THEN "hv_trip"
                                    ELSE IF p = "overtimelimit" THEN "hv_overtime"
                                    ELSE "hv_window"]
    /\ PsuRest

\* lines 839-848: the filament fault is latched
parse_hvout_trip ==
    /\ ReaderAt("hv_trip")
    /\ psu' = [ClearExposure(psu) EXCEPT !.filament_fault = TRUE,
                                         !.rd.pc = "hv_fault_window"]
    /\ PsuRest

\* lines 856-864
parse_hvout_overtime ==
    /\ ReaderAt("hv_overtime")
    /\ psu' = [ClearExposure(psu) EXCEPT !.rd.pc = "hv_fault_window"]
    /\ PsuRest

\* lines 850 / 866
parse_hvout_fault_window ==
    /\ ReaderAt("hv_fault_window")
    /\ psu' = [psu EXCEPT !.imaging_window = FALSE, !.rd.pc = "hv_fault_send"]
    /\ PsuRest

\* lines 851-854 / 867-870
parse_hvout_fault_send ==
    /\ ReaderAt("hv_fault_send")
    /\ psu' = [psu EXCEPT !.tx = IF psu.connected THEN "BeamOn:0" ELSE @,
                          !.rd.pc = "idle"]
    /\ PsuRest

\* lines 872-876
parse_hvout_window ==
    /\ ReaderAt("hv_window")
    /\ psu' = [psu EXCEPT
                 !.imaging_window = IF ~psu.rd.hv THEN FALSE ELSE @,
                 !.rd.pc = IF psu.exposure_active /\ ~psu.rd.hv
                           THEN "hv_dropped" ELSE "check"]
    /\ PsuRest

\* lines 877-886
parse_hvout_dropped ==
    /\ ReaderAt("hv_dropped")
    /\ psu' = [ClearExposure(psu) EXCEPT !.rd.pc = "idle"]
    /\ PsuRest

\* _parse_hvvalreached, lines 803-815
parse_hvvalreached(v) ==
    /\ ReaderAt("idle")
    /\ psu.connected
    /\ psu' = [psu EXCEPT !.hv_val_reached = v,
                          !.rd.pc = IF v THEN "vr_window" ELSE "idle"]
    /\ PsuRest

\* line 809
parse_hvvalreached_window ==
    /\ ReaderAt("vr_window")
    /\ psu' = [psu EXCEPT !.imaging_window = TRUE, !.rd.pc = "check"]
    /\ PsuRest

\* _parse_readstats, lines 728-753, for a line without limit fields
parse_readstats(ma_read) ==
    /\ ReaderAt("idle")
    /\ psu.connected
    /\ psu' = [psu EXCEPT !.ma_read = ma_read, !.rd.pc = "check"]
    /\ PsuRest

\* _check_beam_ready_from_readbacks, lines 897-904: the locals
check_beam_ready_read ==
    /\ ReaderAt("check")
    /\ psu' = [psu EXCEPT !.rd.exposure_active = psu.exposure_active,
                          !.rd.hv_out = psu.hv_out,
                          !.rd.hv_val_reached = psu.hv_val_reached,
                          !.rd.ma_set = psu.ma_set,
                          !.rd.ma_read = psu.ma_read,
                          !.rd.already_ready = psu.beam_ready,
                          !.rd.filament_fault = psu.filament_fault,
                          !.rd.pc = "check_eval"]
    /\ PsuRest

\* ma_read >= ma_set * 0.95, in hundredths
close_enough(ma_read, ma_set) == ma_read * 100 >= ma_set * 95

\* lines 906-930 up to the decision; the locals are dropped on the way out
check_beam_ready_eval ==
    /\ ReaderAt("check_eval")
    /\ LET l == psu.rd
           count == IF close_enough(l.ma_read, l.ma_set)
                    THEN Min2(psu.ma_close_count + 1, MaxCloseCount) ELSE 0
           out(p) == [NoPsu.rd EXCEPT !.pc = p]
       IN psu' =
            IF l.filament_fault \/ ~l.exposure_active
            THEN [psu EXCEPT !.rd = out("idle")]
            ELSE IF ~l.hv_out \/ ~l.hv_val_reached
            THEN [psu EXCEPT !.ma_close_count = 0, !.rd = out("idle")]
            ELSE IF l.ma_set = 0
            THEN [psu EXCEPT !.rd = out(IF l.already_ready THEN "idle"
                                        ELSE "check_set")]
            ELSE [psu EXCEPT !.ma_close_count = count,
                             !.rd = out(IF count >= 2 /\ ~l.already_ready
                                        THEN "check_set" ELSE "idle")]
    /\ PsuRest

\* lines 915-916 / 930-931: self.state.beam_ready = True
check_beam_ready_set ==
    /\ ReaderAt("check_set")
    /\ psu' = [psu EXCEPT !.beam_ready = TRUE, !.rd.pc = "idle"]
    /\ PsuRest

\* ---- setpoints and limits
NoLimit == -1   \* None

\* set_kv, lines 522-524: the limit is read, the request clamped
set_kv(c, kv) ==
    /\ ClientAt(c, "idle")
    /\ psu' = [psu EXCEPT
                 !.cl[c] = [pc |-> "sp_store", key |-> "kv",
                            val |-> clamp(kv, 0,
                               RoundTenths(current_limit(psu.hard_kv_lim)))]]
    /\ PsuRest

\* set_ma, lines 548-550
set_ma(c, ma) ==
    /\ ClientAt(c, "idle")
    /\ psu' = [psu EXCEPT
                 !.cl[c] = [pc |-> "sp_store", key |-> "ma",
                            val |-> clamp(ma, 0, current_limit(psu.hard_ma_lim))]]
    /\ PsuRest

\* set_fil_lim, lines 535-537
set_fil_lim(c, fil) ==
    /\ ClientAt(c, "idle")
    /\ psu' = [psu EXCEPT
                 !.cl[c] = [pc |-> "sp_store", key |-> "fil",
                            val |-> clamp(fil, 0, current_limit(psu.hard_fil_lim))]]
    /\ PsuRest

\* lines 526-533 / 539-546 / 552-559: the setpoint is stored and sent
setpoint_store(c) ==
    /\ ClientAt(c, "sp_store")
    /\ LET k == psu.cl[c].key
           v == psu.cl[c].val
       IN psu' = [psu EXCEPT
                    !.kv_set = IF k = "kv" THEN v ELSE @,
                    !.ma_set = IF k = "ma" THEN v ELSE @,
                    !.fil_lim_set = IF k = "fil" THEN v ELSE @,
                    !.cl[c] = [pc |-> "idle", key |-> "kv", val |-> 0]]
    /\ PsuRest

\* a limit after _apply_limits' clamp (lines 303-319)
applied_limit(old, v, hi) == IF v = NoLimit THEN old ELSE clamp(v, 0, hi)

\* a limits line reaches _apply_limits (lines 299-322) through
\* _parse_limits_summary, _parse_single_limit or _extract_limits_from_readstats
apply_limits(kv, ma, fil) ==
    /\ ReaderAt("idle")
    /\ psu.connected
    /\ LET kvv == applied_limit(psu.hard_kv_lim, kv, HARD_KV_MAX)
           mav == applied_limit(psu.hard_ma_lim, ma, HARD_MA_MAX)
           filv == applied_limit(psu.hard_fil_lim, fil, HARD_FIL_MAX)
           changed == kvv # psu.hard_kv_lim \/ mav # psu.hard_ma_lim
                      \/ filv # psu.hard_fil_lim
       IN psu' = [psu EXCEPT !.hard_kv_lim = kvv, !.hard_ma_lim = mav,
                             !.hard_fil_lim = filv,
                             !.rd.pc = IF changed THEN "en_limits" ELSE "idle"]
    /\ PsuRest

\* _enforce_setpoints_against_limits, line 336: lims = _current_limits()
enforce_setpoints_limits ==
    /\ ReaderAt("en_limits")
    /\ psu' = [psu EXCEPT !.rd.kv = current_limit(psu.hard_kv_lim),
                          !.rd.ma = current_limit(psu.hard_ma_lim),
                          !.rd.fil = current_limit(psu.hard_fil_lim),
                          !.rd.pc = "en_clamp"]
    /\ PsuRest

\* lines 339-356: the setpoints are clamped to lims; 358-364 send them
enforce_setpoints_clamp ==
    /\ ReaderAt("en_clamp")
    /\ psu' = [psu EXCEPT
                 !.kv_set = clamp(@, 0, RoundTenths(psu.rd.kv)),
                 !.ma_set = clamp(@, 0, psu.rd.ma),
                 !.fil_lim_set = clamp(@, 0, psu.rd.fil),
                 !.rd = NoPsu.rd]
    /\ PsuRest
\* -------------------------------------------------------------- initial state
\* no supply registered, or a supply with Auto On/Off ticked that is or is not
\* connected
BeamConfigs ==
    { [registered |-> FALSE, auto |-> FALSE, connected |-> FALSE,
       on |-> FALSE, ready |-> FALSE] } \cup
    { [registered |-> TRUE, auto |-> TRUE, connected |-> c,
       on |-> FALSE, ready |-> FALSE] : c \in BOOLEAN }

WorkerOff == [st |-> "off", mode |-> "idle", left |-> 0, stamp |-> 0]

NoRequest == [mode |-> "idle", n |-> 0]

NoScan == [left |-> 0, n |-> 0, keep |-> FALSE, have_beam |-> FALSE, got |-> 0,
           stop |-> FALSE]

InitCommon ==
    /\ acq_mode = "idle"
    /\ prev_acq_mode = "idle"
    /\ acq_stop = FALSE
    /\ frame_buffer = <<>>
    /\ display_frame = NoFrame
    /\ last_captured_frame = NoFrame
    /\ new_frame_ready = FALSE
    /\ fail_reason = "unset"
    /\ keep_beam_on = FALSE
    /\ capture = NoCapture
    /\ pc = [t \in Threads |-> "idle"]
    /\ req = [t \in Threads |-> NoRequest]
    /\ ct = NoScan
    /\ ri_result = NoFrame
    /\ cal_result = NoFrame
    /\ workers = [w \in Workers |-> WorkerOff]
    /\ tick_pc = "check"
    /\ ops = [t \in Threads |-> 0]
    /\ stops = 0
    /\ acq_seq = 0
    /\ hist = [pushed |-> <<>>,
               manual |-> FALSE,
               stop_req |-> [t \in Threads |-> FALSE],
               late |-> [t \in Threads |-> 0],
               note |-> "none",
               stop_cap |-> FALSE,
               owed_edge |-> FALSE,
               owed_cancel |-> FALSE,
               on_calls |-> 0,
               off_calls |-> 0,
               ri_seq |-> 0,
               own_idle |-> FALSE,
               fresh |-> FALSE,
               click_n |-> 0,
               manual_name |-> "none",
               manual_in |-> 0,
               stage_errors |-> 0]

\* XrayGUI.__init__ + _build_ui: idle, empty buffer, detector and supply as
\* found, no alteration module enabled
Init ==
    /\ InitCommon
    /\ psu = NoPsu
    /\ save = NoSave
    /\ snap = NoSnap
    /\ sig = NoSig
    /\ pcache = NoCache
    /\ shp = NoShp
    /\ bpm = NoBpm
    /\ refs = NoRefs
    /\ integration_n = 1
    /\ cam_connected \in BOOLEAN
    /\ beam \in BeamConfigs
    /\ alteration_pipeline = <<>>

\* thread t at position p is inside one of the blocking calls, past the
\* call's own acq_stop.clear(): turn_on_and_wait_ready (any caller),
\* request_integration (workflow thread), the calibration capture
InCallAt(t, p) ==
    \/ p \in {"sa_beam_wait", "ct_beam_wait", "cal_beam_wait"}
    \/ t = "wf" /\ p \in {"sa_set_mode", "sa_reset", "ri_poll", "ri_wait"}
    \/ t = "cal" /\ p \in {"cal_set_mode", "cal_start", "cal_wait1", "cal_wait2"}

InCall(t) == InCallAt(t, pc[t])

\* a blocking call of thread t returned: forget what was observed about it
Returned(h, t) == [h EXCEPT !.stop_req[t] = FALSE, !.late[t] = 0]

\* what is remembered about thread t's blocking call once it is at position p
HistAt(h, t, p) ==
    LET g == IF t = "ui" /\ p = "idle" THEN [h EXCEPT !.click_n = 0] ELSE h
    IN  IF InCallAt(t, p) THEN g ELSE Returned(g, t)

\* another thread assigns integration_n while a Start click is in flight:
\* click_n keeps the value integration_n would have without the click
Synced(h, n) == IF h.click_n = 0 THEN h ELSE [h EXCEPT !.click_n = n]

\* the supply's set_beam_on(True) was called
OnCalled(h) == [h EXCEPT !.on_calls = @ + 1]

\* the supply's turn_off() was called
OffCalled(h) == [h EXCEPT !.off_calls = @ + 1, !.owed_edge = FALSE,
                          !.owed_cancel = FALSE]

\* nothing is remembered about a request_integration call that is over
NoCall(h) == [h EXCEPT !.ri_seq = 0, !.own_idle = FALSE, !.fresh = FALSE]

\* the arguments of a call are dropped when thread t is back at idle
ReqAt(t, p) == IF p \in {"idle", "ri_ret"} THEN [req EXCEPT ![t] = NoRequest]
               ELSE req

\* ------------------------------------------------------- _start_acquisition
\* where a client thread continues when _start_acquisition returns
AfterStart(t) == IF t = "wf" THEN "ri_poll" ELSE "idle"

\* lines 878-879: Auto On/Off is ticked but the supply is not connected
SupplyMissing ==
    HasAuto /\ ~beam.connected /\ ~capture.skip_beam /\ ~keep_beam_on

\* variant: the handshake is made whether or not the workflow keeps the beam on
NeedsHandshake_IgnoreKeep ==
    HasAuto /\ beam.connected /\ ~capture.skip_beam

\* lines 886-887: the start turns the beam on and waits for it
NeedsHandshake ==
    HasAuto /\ beam.connected /\ ~capture.skip_beam /\ ~keep_beam_on

\* lines 867-887: the refusals, the first acq_stop.clear(), the handshake test
SA_Check(t) ==
    /\ pc[t] = "sa_check"
    /\ IF ~cam_connected \/ acq_mode # "idle"
       THEN /\ pc' = [pc EXCEPT ![t] = AfterStart(t)]
            /\ hist' = HistAt(hist, t, pc'[t])
            /\ UNCHANGED <<acq_stop, fail_reason>>
       ELSE IF SupplyMissing
       THEN /\ fail_reason' = "supply_not_connected"
            /\ pc' = [pc EXCEPT ![t] = AfterStart(t)]
            /\ hist' = HistAt([hist EXCEPT !.note = IF t = "wf" THEN "refused"
                                                     ELSE @], t, pc'[t])
            /\ UNCHANGED acq_stop
       ELSE /\ acq_stop' = FALSE
            /\ pc' = [pc EXCEPT ![t] = IF NeedsHandshake THEN "sa_beam_on"
                                       ELSE "sa_set_mode"]
            /\ hist' = HistAt(hist, t, pc'[t])
            /\ UNCHANGED fail_reason
    /\ req' = ReqAt(t, pc'[t])
    /\ UNCHANGED <<acq_mode, prev_acq_mode, integration_n, frame_buffer,
                   display_frame, last_captured_frame, new_frame_ready,
                   keep_beam_on, cam_connected, beam, capture, ct,
                   ri_result, cal_result, workers, tick_pc, ops, stops, acq_seq,
                   alteration_pipeline, refs, bpm, shp, pcache, sig, snap, save, psu>>

\* turn_on_and_wait_ready, first statement: set_beam_on(True)
SA_BeamOn(t) ==
    /\ pc[t] = "sa_beam_on"
    /\ beam' = TurnOn(beam)
    /\ pc' = [pc EXCEPT ![t] = "sa_beam_wait"]
    /\ hist' = OnCalled(HistAt(hist, t, pc'[t]))
    /\ UNCHANGED <<acq_mode, prev_acq_mode, acq_stop, integration_n,
                   frame_buffer, display_frame, last_captured_frame,
                   new_frame_ready, fail_reason, keep_beam_on, cam_connected,
                   capture, req, ct, ri_result, cal_result, workers, tick_pc,
                   ops, stops, acq_seq,
                   alteration_pipeline, refs, bpm, shp, pcache, sig, snap, save, psu>>

\* turn_on_and_wait_ready, one pass of the wait loop that leaves it:
\* cancelled (False), ready (True) or deadline passed (False); on False
\* _start_acquisition only sets the status text and returns
SA_BeamPoll(t) ==
    /\ pc[t] = "sa_beam_wait"
    /\ \/ /\ acq_stop
          /\ pc' = [pc EXCEPT ![t] = AfterStart(t)]
          /\ hist' = HistAt([hist EXCEPT
                               !.note = IF t = "wf" THEN "cancel" ELSE @,
                               !.owed_cancel = @ \/ ~beam.ready],
                            t, pc'[t])
       \/ /\ ~acq_stop /\ beam.ready
          /\ pc' = [pc EXCEPT ![t] = "sa_set_mode"]
          /\ hist' = HistAt(hist, t, pc'[t])
       \/ /\ ~acq_stop /\ ~beam.ready
          /\ pc' = [pc EXCEPT ![t] = AfterStart(t)]
          /\ hist' = HistAt(hist, t, pc'[t])
    /\ req' = ReqAt(t, pc'[t])
    /\ UNCHANGED <<acq_mode, prev_acq_mode, acq_stop, integration_n,
                   frame_buffer, display_frame, last_captured_frame,
                   new_frame_ready, fail_reason, keep_beam_on, cam_connected,
                   beam, capture, ct, ri_result, cal_result, workers,
                   tick_pc, ops, stops, acq_seq,
                   alteration_pipeline, refs, bpm, shp, pcache, sig, snap, save, psu>>

\* lines 899-900: self.acq_mode = mode
SA_SetMode(t) ==
    /\ pc[t] = "sa_set_mode"
    /\ acq_mode' = req[t].mode
    /\ pc' = [pc EXCEPT ![t] = "sa_reset"]
    /\ hist' = HistAt(hist, t, pc'[t])
    /\ UNCHANGED <<prev_acq_mode, acq_stop, integration_n, frame_buffer,
                   display_frame, last_captured_frame, new_frame_ready,
                   fail_reason, keep_beam_on, cam_connected, beam, capture,
                   req, ct, ri_result, cal_result, workers, tick_pc, ops,
                   stops, acq_seq,
                   alteration_pipeline, refs, bpm, shp, pcache, sig, snap, save, psu>>

\* the lowest free worker slot (0 when none)
FreeWorker == IF \E w \in Workers : workers[w].st = "off"
              THEN CHOOSE w \in Workers :
                     /\ workers[w].st = "off"
                     /\ \A v \in Workers : workers[v].st = "off" => w <= v
              ELSE 0

\* camera_module.start_acquisition (hamamatsu_c7942): nothing when the device
\* handle is gone, else clear the stop flag and start the worker thread
CameraStart ==
    IF ~cam_connected
    THEN UNCHANGED <<workers, acq_seq>> /\ acq_stop' = acq_stop
    ELSE /\ FreeWorker # 0
         /\ acq_stop' = FALSE
         /\ acq_seq' = acq_seq + 1
         /\ workers' = [workers EXCEPT ![FreeWorker] =
                          [st |-> "start", mode |-> "idle", left |-> 0,
                           stamp |-> acq_seq + 1]]

\* lines 901-910: clear stop flag, drop leftover capture state, clear the
\* buffer, start the detector
SA_ResetStart(t) ==
    /\ pc[t] = "sa_reset"
    /\ capture' = IF ~capture.skip_beam
                  THEN [capture EXCEPT !.max_slot = 0, !.collect = <<>>, !.n = 0]
                  ELSE capture
    /\ ClearFrameBuffer
    /\ CameraStart
    /\ pc' = [pc EXCEPT ![t] = AfterStart(t)]
    /\ hist' = HistAt([hist EXCEPT !.ri_seq = IF t = "wf" THEN acq_seq' ELSE @],
                      t, pc'[t])
    /\ req' = ReqAt(t, pc'[t])
    /\ UNCHANGED <<acq_mode, prev_acq_mode, integration_n, last_captured_frame,
                   new_frame_ready, fail_reason, keep_beam_on, cam_connected,
                   beam, ct, ri_result, cal_result, tick_pc, ops, stops,
                   alteration_pipeline, refs, bpm, shp, pcache, sig, snap, save, psu>>

\* ---------------------------------------------------------- detector worker
\* _run_worker entry: read the mode and, for capture_n, the frame count
WorkerBegin(w) ==
    /\ workers[w].st = "start"
    /\ workers' = [workers EXCEPT ![w] =
                     [@ EXCEPT !.st = "run",
                               !.mode = acq_mode,
                               !.left = CASE acq_mode \in {"single", "dual"} -> 1
                                          [] acq_mode = "capture_n" -> integration_n
                                          [] acq_mode = "continuous" -> -1
                                          [] OTHER -> 0]]
    /\ UNCHANGED <<acq_mode, prev_acq_mode, acq_stop, integration_n,
                   frame_buffer, display_frame, last_captured_frame,
                   new_frame_ready, fail_reason, keep_beam_on, cam_connected,
                   beam, capture, pc, req, ct, ri_result, cal_result, tick_pc,
                   ops, stops, acq_seq, hist,
                   alteration_pipeline, refs, bpm, shp, pcache, sig, snap, save, psu>>

\* one pass of the worker loop: acquire and submit one frame unless the stop
\* flag is seen, the count is reached or the device handle is gone (the
\* exception is caught); then finally: set_acquisition_idle
WorkerStep(w) ==
    /\ workers[w].st = "run"
    /\ IF acq_stop \/ workers[w].left = 0 \/ ~cam_connected
       THEN /\ acq_mode' = "idle"
            /\ workers' = [workers EXCEPT ![w] = WorkerOff]
            /\ hist' = [hist EXCEPT
                          !.stop_cap = FALSE,
                          !.own_idle = @ \/ workers[w].stamp = hist.ri_seq,
                          !.owed_edge =
                             @ \/ (acq_mode # "idle" /\ HasAuto /\ beam.on
                                   /\ beam.connected /\ ~keep_beam_on)]
            /\ UNCHANGED <<frame_buffer, display_frame, new_frame_ready,
                           capture>>
       ELSE /\ PushFrame(workers[w].stamp)
            /\ workers' = [workers EXCEPT ![w].left =
                             IF @ = -1 THEN -1 ELSE @ - 1]
            /\ UNCHANGED <<acq_mode, hist>>
    /\ UNCHANGED <<prev_acq_mode, acq_stop, integration_n, last_captured_frame,
                   fail_reason, keep_beam_on, cam_connected, beam, pc, req, ct,
                   ri_result, cal_result, tick_pc, ops, stops, acq_seq,
                   alteration_pipeline, refs, bpm, shp, pcache, sig, snap, save, psu>>

\* one pass of the worker loop in which a stage of the pipeline raises inside
\* submit_frame: _push_frame logs and re-raises before the frame is stored,
\* _run_worker catches the exception (status message) and its finally sets
\* the acquisition idle
WorkerStepRaises(w) ==
    /\ workers[w].st = "run"
    /\ ~(acq_stop \/ workers[w].left = 0 \/ ~cam_connected)
    /\ \E i \in 1..Len(alteration_pipeline) :
          capture.max_slot # 0 => alteration_pipeline[i].slot < capture.max_slot
    /\ acq_mode' = "idle"
    /\ workers' = [workers EXCEPT ![w] = WorkerOff]
    /\ hist' = [hist EXCEPT
                  !.stop_cap = FALSE,
                  !.stage_errors = @ + 1,
                  !.own_idle = @ \/ workers[w].stamp = hist.ri_seq,
                  !.owed_edge =
                     @ \/ (acq_mode # "idle" /\ HasAuto /\ beam.on
                           /\ beam.connected /\ ~keep_beam_on)]
    /\ UNCHANGED <<prev_acq_mode, acq_stop, integration_n, frame_buffer,
                   display_frame, last_captured_frame, new_frame_ready,
                   fail_reason, keep_beam_on, cam_connected, beam, capture, pc,
                   req, ct, ri_result, cal_result, tick_pc, ops, stops, acq_seq,
                   alteration_pipeline, refs, bpm, shp, pcache, sig, snap, save, psu>>

\* ------------------------------------------------------------- _render_tick
\* lines 2074-2097: on the edge capturing -> idle turn the beam off (unless the
\* workflow keeps it on) and publish display_frame as last_captured_frame
TickCheck ==
    /\ tick_pc = "check"
    /\ IF prev_acq_mode # "idle" /\ acq_mode = "idle"
       THEN /\ IF HasAuto /\ beam.connected /\ ~keep_beam_on
               THEN /\ beam' = TurnOff(beam)
                    /\ hist' = OffCalled([hist EXCEPT !.fresh = hist.own_idle])
               ELSE /\ beam' = beam
                    /\ hist' = [hist EXCEPT !.fresh = hist.own_idle]
            /\ last_captured_frame' = display_frame
       ELSE UNCHANGED <<beam, hist, last_captured_frame>>
    /\ tick_pc' = "latch"
    /\ UNCHANGED <<acq_mode, prev_acq_mode, acq_stop, integration_n,
                   frame_buffer, display_frame, new_frame_ready, fail_reason,
                   keep_beam_on, cam_connected, capture, pc, req, ct,
                   ri_result, cal_result, workers, ops, stops, acq_seq,
                   alteration_pipeline, refs, bpm, shp, pcache, sig, snap, save, psu>>

\* lines 2098-2102: remember the mode, drain new_frame_ready
TickLatch ==
    /\ tick_pc = "latch"
    /\ prev_acq_mode' = acq_mode
    /\ new_frame_ready' = FALSE
    /\ tick_pc' = "check"
    /\ UNCHANGED <<acq_mode, acq_stop, integration_n, frame_buffer,
                   display_frame, last_captured_frame, fail_reason,
                   keep_beam_on, cam_connected, beam, capture, pc, req, ct,
                   ri_result, cal_result, workers, ops, stops, acq_seq, hist,
                   alteration_pipeline, refs, bpm, shp, pcache, sig, snap, save, psu>>

\* the Connect callback on a device that does not answer: _teensy = None
ConnectFails ==
    /\ cam_connected
    /\ cam_connected' = FALSE
    /\ UNCHANGED <<acq_mode, prev_acq_mode, acq_stop, integration_n,
                   frame_buffer, display_frame, last_captured_frame,
                   new_frame_ready, fail_reason, keep_beam_on, beam, capture,
                   pc, req, ct, ri_result, cal_result, workers, tick_pc, ops,
                   stops, acq_seq, hist,
                   alteration_pipeline, refs, bpm, shp, pcache, sig, snap, save, psu>>

\* _cb_stop / signal_acquisition_stop: acq_stop.set()
Stop ==
    /\ stops < MaxStops
    /\ stops' = stops + 1
    /\ acq_stop' = TRUE
    /\ hist' = [hist EXCEPT
                  !.stop_req = [t \in Threads |-> @[t] \/ InCall(t)],
                  !.stop_cap = @ \/ acq_mode # "idle"]
    /\ UNCHANGED <<acq_mode, prev_acq_mode, integration_n, frame_buffer,
                   display_frame, last_captured_frame, new_frame_ready,
                   fail_reason, keep_beam_on, cam_connected, beam, capture, pc,
                   req, ct, ri_result, cal_result, workers, tick_pc, ops,
                   acq_seq,
                   alteration_pipeline, refs, bpm, shp, pcache, sig, snap, save, psu>>

\* _cb_start / _cb_capture_n: take mode and N from the widgets, start
UI_Start(mode, n) ==
    /\ pc["ui"] = "idle"
    /\ ops' = [ops EXCEPT !["ui"] = @ + 1]
    /\ integration_n' = n
    /\ hist' = [hist EXCEPT !.click_n = integration_n]
    /\ req' = [req EXCEPT !["ui"] = [mode |-> mode, n |-> n]]
    /\ pc' = [pc EXCEPT !["ui"] = "sa_check"]
    /\ UNCHANGED <<acq_mode, prev_acq_mode, acq_stop, frame_buffer,
                   display_frame, last_captured_frame, new_frame_ready,
                   fail_reason, keep_beam_on, cam_connected, beam, capture, ct,
                   ri_result, cal_result, workers, tick_pc, stops, acq_seq,
                   alteration_pipeline, refs, bpm, shp, pcache, sig, snap, save, psu>>


\* ------------------------------------- detector worker, frame read and submit
\* _trigger_and_read returned a frame: the last look at the stop flag is
\* behind the worker, get_frame and unpack_12bit are running
WorkerRead(w) ==
    /\ workers[w].st = "run"
    /\ ~(acq_stop \/ workers[w].left = 0 \/ ~cam_connected)
    /\ workers' = [workers EXCEPT ![w].st = "read"]
    /\ UNCHANGED <<acq_mode, prev_acq_mode, acq_stop, integration_n,
                   frame_buffer, display_frame, last_captured_frame,
                   new_frame_ready, fail_reason, keep_beam_on, cam_connected,
                   beam, capture, pc, req, ct, ri_result, cal_result, tick_pc,
                   ops, stops, acq_seq, hist,
                   alteration_pipeline, refs, bpm, shp, pcache, sig, snap, save, psu>>

\* api.submit_frame(frame) of _do_single_shot / _do_dual_shot
WorkerSubmit(w) ==
    /\ workers[w].st = "read"
    /\ PushFrame(workers[w].stamp)
    /\ workers' = [workers EXCEPT ![w].st = "run",
                                  ![w].left = IF @ = -1 THEN -1 ELSE @ - 1]
    /\ UNCHANGED <<acq_mode, hist>>
    /\ UNCHANGED <<prev_acq_mode, acq_stop, integration_n, last_captured_frame,
                   fail_reason, keep_beam_on, cam_connected, beam, pc, req, ct,
                   ri_result, cal_result, tick_pc, ops, stops, acq_seq,
                   alteration_pipeline, refs, bpm, shp, pcache, sig, snap, save, psu>>

\* the loop ends (stop flag, count reached, device gone): finally,
\* set_acquisition_idle
WorkerExit(w) ==
    /\ acq_stop \/ workers[w].left = 0 \/ ~cam_connected
    /\ WorkerStep(w)
\* ------------------------------------------------------ request_integration
\* the mode request_integration starts: continuous, and single/dual with
\* more than one frame, become capture_n
RequestMode(combo, n) ==
    IF combo = "continuous" THEN "capture_n"
    ELSE IF combo \in {"single", "dual"} /\ n > 1 THEN "capture_n"
    ELSE combo

\* lines 920-944: refusals, then sync of mode and N, last_captured_frame and
\* the fail reason reset
RI_Check(combo) ==
    /\ pc["wf"] = "ri_check"
    /\ IF ~cam_connected
       THEN /\ fail_reason' = "not_connected"
            /\ ri_result' = NoFrame
            /\ pc' = [pc EXCEPT !["wf"] = "ri_ret"]
            /\ UNCHANGED <<integration_n, last_captured_frame, req>>
       ELSE IF acq_mode # "idle"
       THEN /\ fail_reason' = "not_idle"
            /\ ri_result' = NoFrame
            /\ pc' = [pc EXCEPT !["wf"] = "ri_ret"]
            /\ UNCHANGED <<integration_n, last_captured_frame, req>>
       ELSE /\ integration_n' = ClampIntegN(ct.n)
            /\ req' = [req EXCEPT !["wf"] =
                         [mode |-> RequestMode(combo, ct.n), n |-> ct.n]]
            /\ last_captured_frame' = NoFrame
            /\ fail_reason' = "unset"
            /\ pc' = [pc EXCEPT !["wf"] = "sa_check"]
            /\ UNCHANGED ri_result
    /\ hist' = HistAt(NoCall(Synced(hist, integration_n')), "wf", pc'["wf"])
    /\ UNCHANGED <<acq_mode, prev_acq_mode, acq_stop, frame_buffer,
                   display_frame, new_frame_ready, keep_beam_on, cam_connected,
                   beam, capture, ct, cal_result, workers, tick_pc, ops, stops,
                   acq_seq,
                   alteration_pipeline, refs, bpm, shp, pcache, sig, snap, save, psu>>

\* lines 948-957: the poll until idle; stop and deadline end the call
RI_Poll ==
    /\ pc["wf"] = "ri_poll"
    /\ \/ /\ acq_mode = "idle"
          /\ pc' = [pc EXCEPT !["wf"] = "ri_wait"]
          /\ UNCHANGED <<acq_stop, fail_reason, ri_result>>
       \/ /\ acq_mode # "idle" /\ acq_stop
          /\ fail_reason' = "stopped"
          /\ ri_result' = NoFrame
          /\ pc' = [pc EXCEPT !["wf"] = "ri_ret"]
          /\ UNCHANGED acq_stop
       \/ /\ acq_mode # "idle" /\ ~acq_stop
          /\ acq_stop' = TRUE
          /\ fail_reason' = "timeout"
          /\ ri_result' = NoFrame
          /\ pc' = [pc EXCEPT !["wf"] = "ri_ret"]
    /\ hist' = HistAt(hist, "wf", pc'["wf"])
    /\ req' = ReqAt("wf", pc'["wf"])
    /\ UNCHANGED <<acq_mode, prev_acq_mode, integration_n, frame_buffer,
                   display_frame, last_captured_frame, new_frame_ready,
                   keep_beam_on, cam_connected, beam, capture, ct,
                   cal_result, workers, tick_pc, ops, stops, acq_seq,
                   alteration_pipeline, refs, bpm, shp, pcache, sig, snap, save, psu>>

\* variant: the frame never arrived and no reason is recorded for it
RI_Wait_NoReason ==
    /\ pc["wf"] = "ri_wait"
    /\ ri_result' = last_captured_frame
    /\ pc' = [pc EXCEPT !["wf"] = "ri_ret"]
    /\ hist' = HistAt(hist, "wf", pc'["wf"])
    /\ req' = ReqAt("wf", pc'["wf"])
    /\ UNCHANGED <<acq_mode, prev_acq_mode, acq_stop, integration_n,
                   frame_buffer, display_frame, last_captured_frame,
                   new_frame_ready, fail_reason, keep_beam_on, cam_connected,
                   beam, capture, ct, cal_result, workers, tick_pc, ops,
                   stops, acq_seq,
                   alteration_pipeline, refs, bpm, shp, pcache, sig, snap, save, psu>>

\* lines 960-970: wait for the UI tick to publish last_captured_frame
RI_Wait ==
    /\ pc["wf"] = "ri_wait"
    /\ IF last_captured_frame # NoFrame
       THEN /\ ri_result' = last_captured_frame
            /\ UNCHANGED fail_reason
       ELSE /\ ri_result' = NoFrame
            /\ fail_reason' = "no_frame"
    /\ pc' = [pc EXCEPT !["wf"] = "ri_ret"]
    /\ hist' = HistAt(hist, "wf", pc'["wf"])
    /\ req' = ReqAt("wf", pc'["wf"])
    /\ UNCHANGED <<acq_mode, prev_acq_mode, acq_stop, integration_n,
                   frame_buffer, display_frame, last_captured_frame,
                   new_frame_ready, keep_beam_on, cam_connected, beam, capture,
                   ct, cal_result, workers, tick_pc, ops, stops, acq_seq,
                   alteration_pipeline, refs, bpm, shp, pcache, sig, snap, save, psu>>

\* ------------------------------------------------------------ CT scan worker
\* _start_ct_scan (refused without a detector) and _run_ct_worker lines
\* 164-199: a fresh ct_scan_stop, the parameters, keep-HV-on only with a supply
CT_Start(keep, nproj, n) ==
    /\ pc["wf"] = "idle"
    /\ ops' = [ops EXCEPT !["wf"] = @ + 1]
    /\ IF ~cam_connected
       THEN UNCHANGED <<keep_beam_on, ct, pc, hist>>
       ELSE LET have == HasAuto /\ beam.connected IN
            /\ keep_beam_on' = (keep /\ have)
            /\ ct' = [left |-> nproj, n |-> n, keep |-> keep,
                      have_beam |-> have, got |-> 0, stop |-> FALSE]
            /\ pc' = [pc EXCEPT !["wf"] = IF keep /\ have THEN "ct_beam_on"
                                          ELSE "ri_check"]
            /\ hist' = [hist EXCEPT !.on_calls = 0, !.off_calls = 0,
                                    !.note = "none"]
    /\ UNCHANGED <<acq_mode, prev_acq_mode, acq_stop, integration_n,
                   frame_buffer, display_frame, last_captured_frame,
                   new_frame_ready, fail_reason, cam_connected, beam, capture,
                   req, ri_result, cal_result, workers, tick_pc, stops,
                   acq_seq,
                   alteration_pipeline, refs, bpm, shp, pcache, sig, snap, save, psu>>

\* _abort_ct_scan: ct_scan_stop.set()
CT_Abort ==
    /\ pc["wf"] # "idle"
    /\ ~ct.stop
    /\ ct' = [ct EXCEPT !.stop = TRUE]
    /\ UNCHANGED <<acq_mode, prev_acq_mode, acq_stop, integration_n,
                   frame_buffer, display_frame, last_captured_frame,
                   new_frame_ready, fail_reason, keep_beam_on, cam_connected,
                   beam, capture, pc, req, ri_result, cal_result, workers,
                   tick_pc, ops, stops, acq_seq, hist,
                   alteration_pipeline, refs, bpm, shp, pcache, sig, snap, save, psu>>

\* line 203, first statement of turn_on_and_wait_ready(timeout_s=30.0)
CT_BeamOn ==
    /\ pc["wf"] = "ct_beam_on"
    /\ beam' = TurnOn(beam)
    /\ pc' = [pc EXCEPT !["wf"] = "ct_beam_wait"]
    /\ hist' = OnCalled(HistAt(hist, "wf", pc'["wf"]))
    /\ UNCHANGED <<acq_mode, prev_acq_mode, acq_stop, integration_n,
                   frame_buffer, display_frame, last_captured_frame,
                   new_frame_ready, fail_reason, keep_beam_on, cam_connected,
                   capture, req, ct, ri_result, cal_result, workers, tick_pc,
                   ops, stops, acq_seq,
                   alteration_pipeline, refs, bpm, shp, pcache, sig, snap, save, psu>>

\* lines 203-213: the wait loop is left on ready or on the deadline only
\* (no should_cancel is passed); then the first ct_scan_stop test
CT_BeamPoll ==
    /\ pc["wf"] = "ct_beam_wait"
    /\ pc' = [pc EXCEPT !["wf"] = IF beam.ready /\ ~ct.stop THEN "ri_check"
                                  ELSE "ct_finally"]
    /\ hist' = HistAt(hist, "wf", pc'["wf"])
    /\ UNCHANGED <<acq_mode, prev_acq_mode, acq_stop, integration_n,
                   frame_buffer, display_frame, last_captured_frame,
                   new_frame_ready, fail_reason, keep_beam_on, cam_connected,
                   beam, capture, req, ct, ri_result, cal_result, workers,
                   tick_pc, ops, stops, acq_seq,
                   alteration_pipeline, refs, bpm, shp, pcache, sig, snap, save, psu>>

\* lines 209-260: a None ends the scan; a frame is saved and the next
\* projection requested, unless the scan is complete or ct_scan_stop is set
CT_AfterRequest ==
    /\ pc["wf"] = "ri_ret"
    /\ IF ri_result = NoFrame
       THEN /\ pc' = [pc EXCEPT !["wf"] = "ct_finally"]
            /\ UNCHANGED ct
       ELSE /\ ct' = [ct EXCEPT !.left = @ - 1, !.got = @ + 1]
            /\ pc' = [pc EXCEPT !["wf"] = IF ct.left = 1 \/ ct.stop
                                          THEN "ct_finally" ELSE "ri_check"]
    /\ ri_result' = NoFrame
    /\ hist' = [HistAt(NoCall(hist), "wf", pc'["wf"]) EXCEPT !.note = "none"]
    /\ UNCHANGED <<acq_mode, prev_acq_mode, acq_stop, integration_n,
                   frame_buffer, display_frame, last_captured_frame,
                   new_frame_ready, fail_reason, keep_beam_on, cam_connected,
                   beam, capture, req, cal_result, workers, tick_pc,
                   ops, stops, acq_seq,
                   alteration_pipeline, refs, bpm, shp, pcache, sig, snap, save, psu>>

\* lines 261-266: clear the keep flag, turn the beam off if it was kept on
CT_Finally ==
    /\ pc["wf"] = "ct_finally"
    /\ keep_beam_on' = FALSE
    /\ IF keep_beam_on /\ ct.have_beam
       THEN /\ beam' = TurnOff(beam)
            /\ hist' = OffCalled(HistAt(hist, "wf", "idle"))
       ELSE /\ beam' = beam
            /\ hist' = HistAt(hist, "wf", "idle")
    /\ pc' = [pc EXCEPT !["wf"] = "idle"]
    /\ UNCHANGED <<acq_mode, prev_acq_mode, acq_stop, integration_n,
                   frame_buffer, display_frame, last_captured_frame,
                   new_frame_ready, fail_reason, cam_connected, capture, req,
                   ct, ri_result, cal_result, workers, tick_pc, ops, stops,
                   acq_seq,
                   alteration_pipeline, refs, bpm, shp, pcache, sig, snap, save, psu>>

\* ---------------------------------- request_n_frames_processed_up_to_slot
\* lines 804-840 up to the handshake: refusals, capture state, N, stop flag,
\* buffer; the flat capture is refused when the supply is not connected
CAL_Begin(n, max_slot, dark) ==
    /\ pc["cal"] = "idle"
    /\ ops' = [ops EXCEPT !["cal"] = @ + 1]
    /\ IF ~cam_connected \/ acq_mode # "idle"
       THEN /\ cal_result' = NoFrame
            /\ UNCHANGED <<capture, integration_n, acq_stop, frame_buffer,
                           display_frame, pc, req>>
       ELSE /\ capture' = [max_slot |-> max_slot, collect |-> <<>>, n |-> n,
                           ready |-> FALSE, skip_beam |-> dark]
            /\ integration_n' = n
            /\ acq_stop' = FALSE
            /\ ClearFrameBuffer
            /\ IF ~dark /\ HasAuto /\ ~beam.connected /\ ~keep_beam_on
               THEN /\ cal_result' = NoFrame
                    /\ UNCHANGED <<pc, req>>
               ELSE /\ pc' = [pc EXCEPT !["cal"] =
                                IF ~dark /\ HasAuto /\ beam.connected
                                   /\ ~keep_beam_on
                                THEN "cal_beam_on" ELSE "cal_set_mode"]
                    /\ req' = [req EXCEPT !["cal"] =
                                 [mode |-> "capture_n", n |-> n]]
                    /\ UNCHANGED cal_result
    /\ hist' = HistAt(Synced(hist, integration_n'), "cal", pc'["cal"])
    /\ UNCHANGED <<acq_mode, prev_acq_mode, last_captured_frame,
                   new_frame_ready, fail_reason, keep_beam_on, cam_connected,
                   beam, ct, ri_result, workers, tick_pc, stops, acq_seq,
                   alteration_pipeline, refs, bpm, shp, pcache, sig, snap, save, psu>>

\* line 828, first statement of turn_on_and_wait_ready
CAL_BeamOn ==
    /\ pc["cal"] = "cal_beam_on"
    /\ beam' = TurnOn(beam)
    /\ pc' = [pc EXCEPT !["cal"] = "cal_beam_wait"]
    /\ hist' = OnCalled(HistAt(hist, "cal", pc'["cal"]))
    /\ UNCHANGED <<acq_mode, prev_acq_mode, acq_stop, integration_n,
                   frame_buffer, display_frame, last_captured_frame,
                   new_frame_ready, fail_reason, keep_beam_on, cam_connected,
                   capture, req, ct, ri_result, cal_result, workers, tick_pc,
                   ops, stops, acq_seq,
                   alteration_pipeline, refs, bpm, shp, pcache, sig, snap, save, psu>>

\* lines 828-839: leave the wait; on False drop the capture state, return None
CAL_BeamPoll ==
    /\ pc["cal"] = "cal_beam_wait"
    /\ IF ~acq_stop /\ beam.ready
       THEN /\ pc' = [pc EXCEPT !["cal"] = "cal_set_mode"]
            /\ UNCHANGED <<capture, cal_result>>
       ELSE /\ capture' = [capture EXCEPT !.max_slot = 0, !.collect = <<>>,
                                          !.n = 0, !.skip_beam = FALSE]
            /\ cal_result' = NoFrame
            /\ pc' = [pc EXCEPT !["cal"] = "idle"]
    /\ hist' = HistAt(hist, "cal", pc'["cal"])
    /\ req' = ReqAt("cal", pc'["cal"])
    /\ UNCHANGED <<acq_mode, prev_acq_mode, acq_stop, integration_n,
                   frame_buffer, display_frame, last_captured_frame,
                   new_frame_ready, fail_reason, keep_beam_on, cam_connected,
                   beam, ct, ri_result, workers, tick_pc, ops, stops,
                   acq_seq,
                   alteration_pipeline, refs, bpm, shp, pcache, sig, snap, save, psu>>

\* line 841: self.acq_mode = "capture_n"
CAL_SetMode ==
    /\ pc["cal"] = "cal_set_mode"
    /\ acq_mode' = "capture_n"
    /\ pc' = [pc EXCEPT !["cal"] = "cal_start"]
    /\ hist' = HistAt(hist, "cal", pc'["cal"])
    /\ UNCHANGED <<prev_acq_mode, acq_stop, integration_n, frame_buffer,
                   display_frame, last_captured_frame, new_frame_ready,
                   fail_reason, keep_beam_on, cam_connected, beam, capture,
                   req, ct, ri_result, cal_result, workers, tick_pc, ops,
                   stops, acq_seq,
                   alteration_pipeline, refs, bpm, shp, pcache, sig, snap, save, psu>>

\* line 842: camera_module.start_acquisition
CAL_StartCamera ==
    /\ pc["cal"] = "cal_start"
    /\ CameraStart
    /\ pc' = [pc EXCEPT !["cal"] = "cal_wait1"]
    /\ hist' = HistAt(hist, "cal", pc'["cal"])
    /\ UNCHANGED <<acq_mode, prev_acq_mode, integration_n, frame_buffer,
                   display_frame, last_captured_frame, new_frame_ready,
                   fail_reason, keep_beam_on, cam_connected, beam, capture,
                   req, ct, ri_result, cal_result, tick_pc, ops, stops,
                   alteration_pipeline, refs, bpm, shp, pcache, sig, snap, save, psu>>

\* lines 844-850: wait for the frames; stop flag or deadline set the stop flag
CAL_WaitFrames ==
    /\ pc["cal"] = "cal_wait1"
    /\ \/ /\ capture.ready
          /\ UNCHANGED acq_stop
       \/ /\ ~capture.ready
          /\ acq_stop' = TRUE
    /\ pc' = [pc EXCEPT !["cal"] = "cal_wait2"]
    /\ hist' = HistAt(hist, "cal", pc'["cal"])
    /\ UNCHANGED <<acq_mode, prev_acq_mode, integration_n, frame_buffer,
                   display_frame, last_captured_frame, new_frame_ready,
                   fail_reason, keep_beam_on, cam_connected, beam, capture,
                   req, ct, ri_result, cal_result, workers, tick_pc, ops,
                   stops, acq_seq,
                   alteration_pipeline, refs, bpm, shp, pcache, sig, snap, save, psu>>

\* lines 852-863: wait for idle (or stop, or deadline), take the collected
\* frames, drop the capture state, return their mean when there are N
CAL_Finish ==
    /\ pc["cal"] = "cal_wait2"
    /\ cal_result' = IF Len(capture.collect) < req["cal"].n THEN NoFrame
                     ELSE Mean(capture.collect)
    /\ capture' = [capture EXCEPT !.max_slot = 0, !.collect = <<>>, !.n = 0,
                                  !.skip_beam = FALSE]
    /\ pc' = [pc EXCEPT !["cal"] = "idle"]
    /\ hist' = HistAt(hist, "cal", pc'["cal"])
    /\ req' = ReqAt("cal", pc'["cal"])
    /\ UNCHANGED <<acq_mode, prev_acq_mode, acq_stop, integration_n,
                   frame_buffer, display_frame, last_captured_frame,
                   new_frame_ready, fail_reason, keep_beam_on, cam_connected,
                   beam, ct, ri_result, workers, tick_pc, ops, stops,
                   acq_seq,
                   alteration_pipeline, refs, bpm, shp, pcache, sig, snap, save, psu>>

\* ------------------------------------------------------------ waiting loops
\* a pass of a wait loop that stays in the loop (sleep and poll again)
StillWaiting(t) ==
    \/ pc[t] = "sa_beam_wait" /\ ~acq_stop /\ ~beam.ready
    \/ pc[t] = "cal_beam_wait" /\ ~acq_stop /\ ~beam.ready
    \/ pc[t] = "ct_beam_wait" /\ ~beam.ready
    \/ pc[t] = "ri_poll" /\ acq_mode # "idle" /\ ~acq_stop
    \/ pc[t] = "cal_wait1" /\ ~capture.ready /\ ~acq_stop
    \/ pc[t] = "cal_wait2" /\ acq_mode # "idle" /\ ~acq_stop

\* the polls a blocking call still makes after a stop was requested during it
PollAgain(t) ==
    /\ StillWaiting(t)
    /\ hist.stop_req[t]
    /\ hist.late[t] <= PollBound
    /\ hist' = [hist EXCEPT !.late[t] = @ + 1]
    /\ UNCHANGED <<acq_mode, prev_acq_mode, acq_stop, integration_n,
                   frame_buffer, display_frame, last_captured_frame,
                   new_frame_ready, fail_reason, keep_beam_on, cam_connected,
                   beam, capture, pc, req, ct, ri_result, cal_result, workers,
                   tick_pc, ops, stops, acq_seq,
                   alteration_pipeline, refs, bpm, shp, pcache, sig, snap, save, psu>>

\* ------------------------------------------------------------ specification
\* the steps of one client thread inside _start_acquisition
StartSteps(t) ==
    SA_Check(t) \/ SA_BeamOn(t) \/ SA_BeamPoll(t) \/ SA_SetMode(t)
    \/ SA_ResetStart(t)

\* the steps of the workflow thread once the scan runs
WorkflowSteps ==
    \/ StartSteps("wf")
    \/ CT_BeamOn \/ CT_BeamPoll
    \/ \E c \in Modes : RI_Check(c)
    \/ RI_Poll \/ RI_Wait \/ CT_AfterRequest \/ CT_Finally

\* the steps of a calibration capture once it runs
CalibrationSteps ==
    \/ CAL_BeamOn \/ CAL_BeamPoll \/ CAL_SetMode \/ CAL_StartCamera
    \/ CAL_WaitFrames \/ CAL_Finish

WorkerSteps == \E w \in Workers : WorkerBegin(w) \/ WorkerStep(w)

TickSteps == TickCheck \/ TickLatch

\* a run makes at most MaxOps top-level requests
MayRequest == ops["ui"] + ops["wf"] + ops["cal"] < MaxOps

Next ==
    \/ MayRequest /\ \E m \in Modes, n \in 1..MaxReqN : UI_Start(m, n)
    \/ StartSteps("ui")
    \/ MayRequest /\ \E k \in BOOLEAN, np \in 1..MaxProj, n \in 1..MaxReqN :
                        CT_Start(k, np, n)
    \/ CT_Abort
    \/ WorkflowSteps
    \/ MayRequest /\ \E n \in 1..MaxReqN : CAL_Begin(n, DARK_SLOT, TRUE)
    \/ MayRequest /\ \E n \in 1..MaxReqN : CAL_Begin(n, FLAT_SLOT, FALSE)
    \/ CalibrationSteps
    \/ WorkerSteps
    \/ TickSteps
    \/ Stop
    \/ ConnectFails
    \/ BeamBecomesReady
    \/ \E t \in Threads : PollAgain(t)

Spec == Init /\ [][Next]_vars

\* every thread that can take a step eventually takes one: the threads are
\* scheduled and every wait loop has a deadline.  Nothing is assumed about
\* the user's clicks or about the supply becoming ready.
Fairness ==
    /\ WF_vars(StartSteps("ui"))
    /\ WF_vars(WorkflowSteps)
    /\ WF_vars(CalibrationSteps)
    /\ WF_vars(WorkerSteps)
    /\ WF_vars(TickSteps)

FairSpec == Spec /\ Fairness

\* the workflow alone: one CT scan after another, the detector worker, the
\* UI tick, Stop and Abort clicks, the supply
NextWorkflow ==
    \/ MayRequest /\ \E k \in BOOLEAN, np \in 1..MaxProj, n \in 1..MaxReqN :
                        CT_Start(k, np, n)
    \/ CT_Abort
    \/ WorkflowSteps
    \/ WorkerSteps
    \/ TickSteps
    \/ Stop
    \/ ConnectFails
    \/ BeamBecomesReady
    \/ PollAgain("wf")

SpecWorkflow == Init /\ [][NextWorkflow]_vars

\* ------------------------------------------- clients sharing the controller
\* the alteration modules of the repository with the slots they declare
DeclaredModules ==
    Discovered(<<[slot |-> BAD_PIXEL_SLOT, enabled |-> TRUE],
                 [slot |-> DARK_SLOT, enabled |-> TRUE],
                 [slot |-> FLAT_SLOT, enabled |-> TRUE]>>)

\* as Init, with the repository's alteration modules enabled
InitShared ==
    /\ InitCommon
    /\ psu = NoPsu
    /\ save = NoSave
    /\ snap = NoSnap
    /\ sig = NoSig
    /\ pcache = NoCache
    /\ shp = NoShp
    /\ bpm = NoBpm
    /\ refs = NoRefs
    /\ integration_n = 1
    /\ cam_connected \in BOOLEAN
    /\ beam \in BeamConfigs
    /\ alteration_pipeline = BuildPipeline(DeclaredModules)

\* the modes of the Start and Capture N buttons used in these runs
SharedModes == {"capture_n", "continuous"}

\* a run makes at most MaxShared clicks on Start / Capture N and at most
\* MaxShared requests from the workflow and calibration threads
MayClick == ops["ui"] < MaxShared
MayRun == ops["wf"] + ops["cal"] < MaxShared

\* the UI buttons used while, before or after a one-projection CT scan or a
\* calibration capture
NextShared ==
    \/ MayClick /\ \E m \in SharedModes, n \in 1..MaxReqN : UI_Start(m, n)
    \/ StartSteps("ui")
    \/ MayRun /\ \E k \in BOOLEAN, n \in 1..MaxReqN : CT_Start(k, 1, n)
    \/ WorkflowSteps
    \/ MayRun /\ \E n \in 1..MaxReqN : CAL_Begin(n, DARK_SLOT, TRUE)
    \/ MayRun /\ \E n \in 1..MaxReqN : CAL_Begin(n, FLAT_SLOT, FALSE)
    \/ CalibrationSteps
    \/ Len(capture.collect) < MaxCollect /\ WorkerSteps
    \/ TickSteps
    \/ Stop
    \/ BeamBecomesReady

SpecShared == InitShared /\ [][NextShared]_vars

\* ------------------------------------------- startup, pipeline, calibration
\* module sets found at startup: dark_correction and flat_correction as
\* shipped, a third alteration module declaring any of the slots (or none:
\* slot 0), each enabled or not in the settings
ModuleConfigs ==
    { <<[slot |-> s, enabled |-> e1],
        [slot |-> DARK_SLOT, enabled |-> e2],
        [slot |-> FLAT_SLOT, enabled |-> e3]>> :
      s \in SlotChoices, e1 \in BOOLEAN, e2 \in BOOLEAN, e3 \in BOOLEAN }

\* integ_n values found in the settings file
SavedCounts == {0, MaxReqN, INTEG_N_MAX + 1}

\* dark / flat stack counts a capture is asked for (sliders 1..50)
StackCounts == {1, MaxReqN, INTEG_N_MAX + 1}

\* frames a module hands to output_manual_from_module
RawFrames == 1..MaxRaw

\* _apply_loaded_settings + _build_ui: integration_n clamped from the settings,
\* the pipeline built from the discovered modules
InitPipeline ==
    /\ InitCommon
    /\ psu = NoPsu
    /\ save = NoSave
    /\ snap = NoSnap
    /\ sig = NoSig
    /\ pcache = NoCache
    /\ shp = NoShp
    /\ bpm = NoBpm
    /\ refs = NoRefs
    /\ integration_n \in {ClampIntegN(s) : s \in SavedCounts}
    /\ cam_connected = TRUE
    /\ beam \in BeamConfigs
    /\ alteration_pipeline \in
          {BuildPipeline(Discovered(cfg)) : cfg \in ModuleConfigs}

\* _output_manual_from_module(module_name, frame): the frame continued behind
\* the module becomes display_frame
OutputManualFromModule(name, f) ==
    /\ display_frame' = <<ContinueFromModule(alteration_pipeline, name, f), 1>>
    /\ hist' = [hist EXCEPT !.manual = TRUE, !.manual_name = name,
                            !.manual_in = f]
    /\ UNCHANGED <<acq_mode, prev_acq_mode, acq_stop, integration_n,
                   frame_buffer, last_captured_frame, new_frame_ready,
                   fail_reason, keep_beam_on, cam_connected, beam, capture,
                   pc, req, ct, ri_result, cal_result, workers, tick_pc, ops,
                   stops, acq_seq, alteration_pipeline, refs, bpm, shp, pcache, sig, snap, save, psu>>

\* the modules of the pipeline, and the frames at hand: raw ones and the
\* frames of the running capture
StageNames == {alteration_pipeline[i].name : i \in 1..Len(alteration_pipeline)}
FramesAtHand ==
    RawFrames \cup {capture.collect[i] : i \in 1..Len(capture.collect)}

\* _cb_capture_dark / _cb_capture_flat start a capture when their module is
\* enabled; a module's Apply hands a frame to _output_manual_from_module
NextPipeline ==
    \/ /\ MayRequest /\ "dark_correction" \in StageNames
       /\ \E n \in StackCounts : CAL_Begin(n, DARK_SLOT, TRUE)
    \/ /\ MayRequest /\ "flat_correction" \in StageNames
       /\ \E n \in StackCounts : CAL_Begin(n, FLAT_SLOT, FALSE)
    \/ CalibrationSteps
    \/ Len(capture.collect) < MaxCollect /\ WorkerSteps
    \/ \E w \in Workers : WorkerStepRaises(w)
    \/ TickSteps
    \/ Stop
    \/ BeamBecomesReady
    \/ \E name \in StageNames, f \in FramesAtHand :
          OutputManualFromModule(name, f)

SpecPipeline == InitPipeline /\ [][NextPipeline]_vars


\* calibration captures with the worker's read and submit as separate steps
NextCapture ==
    \/ /\ MayRequest /\ "dark_correction" \in StageNames
       /\ \E n \in StackCounts : CAL_Begin(n, DARK_SLOT, TRUE)
    \/ /\ MayRequest /\ "flat_correction" \in StageNames
       /\ \E n \in StackCounts : CAL_Begin(n, FLAT_SLOT, FALSE)
    \/ CalibrationSteps
    \/ \E w \in Workers : WorkerBegin(w)
    \/ \E w \in Workers : Len(capture.collect) < MaxCollect /\ WorkerRead(w)
    \/ \E w \in Workers : WorkerSubmit(w)
    \/ \E w \in Workers : WorkerExit(w)
    \/ TickSteps
    \/ Stop
    \/ BeamBecomesReady

SpecCapture == InitPipeline /\ [][NextCapture]_vars
\* ------------------------------------------------ reference store, in isolation
\* Init of the reference-store runs: any listing of the two directories, any
\* current exposure, gain and frame size, the start-up lookup done
InitRefs ==
    /\ InitCommon
    /\ psu = NoPsu
    /\ save = NoSave
    /\ snap = NoSnap
    /\ sig = NoSig
    /\ pcache = NoCache
    /\ shp = NoShp
    /\ bpm = NoBpm
    /\ integration_n = 1
    /\ cam_connected = TRUE
    /\ beam = [registered |-> FALSE, auto |-> FALSE, connected |-> FALSE,
               on |-> FALSE, ready |-> FALSE]
    /\ alteration_pipeline = <<>>
    /\ \E kind \in Kinds, cam \in Listings(MaxCamFiles), top \in Listings(MaxTopFiles),
          t \in QueryTimes, g \in QueryGains, d \in FrameSizes :
          refs = FreshRefs(kind, cam, top, t, g, d)

NextRefs ==
    \/ \E t \in QueryTimes : cb_integ_time_changed(t)
    \/ \E g \in QueryGains : cb_gain(g)
    \/ \E d \in FrameSizes : roi_cb(d)
    \/ \E f \in RefFiles : load_field_from_path(f)
    \/ \E i \in 0..MaxCamFiles : capture_and_save(i)
    \/ cb_clear
    \/ cb_auto_apply

SpecRefs == InitRefs /\ [][NextRefs]_vars

\* ----------------------------------------------- bad-pixel stage, in isolation
\* Init of the bad-pixel runs: any frame, and a mask of the frame's shape, of
\* another shape, or none
InitBadPixel ==
    /\ InitCommon
    /\ psu = NoPsu
    /\ save = NoSave
    /\ snap = NoSnap
    /\ sig = NoSig
    /\ pcache = NoCache
    /\ shp = NoShp
    /\ refs = NoRefs
    /\ integration_n = 1
    /\ cam_connected = TRUE
    /\ beam = [registered |-> FALSE, auto |-> FALSE, connected |-> FALSE,
               on |-> FALSE, ready |-> FALSE]
    /\ alteration_pipeline = <<>>
    /\ \E f \in Frames(GridH, GridW),
          m \in Masks(GridH, GridW) \cup Masks(1, GridW) \cup {NoMask} :
          bpm = [frame |-> f, mask |-> m, auto_correct |-> TRUE, out |-> f,
                 ran |-> FALSE]

NextBadPixel ==
    \/ BpmProcess
    \/ \E f \in Frames(GridH, GridW) : BpmNextFrame(f)
    \/ BpmToggle
    \/ BpmClearMask

SpecBadPixel == InitBadPixel /\ [][NextBadPixel]_vars

\* --------------------------------------------------- frame sizes, in isolation
\* Init of the frame-size runs: connected detector at an ROI, any crop
\* rectangle, any integration capacity, empty buffer
InitShapes ==
    /\ InitCommon
    /\ psu = NoPsu
    /\ save = NoSave
    /\ snap = NoSnap
    /\ sig = NoSig
    /\ pcache = NoCache
    /\ refs = NoRefs
    /\ bpm = NoBpm
    /\ integration_n = 1
    /\ cam_connected = TRUE
    /\ beam = [registered |-> FALSE, auto |-> FALSE, connected |-> FALSE,
               on |-> FALSE, ready |-> FALSE]
    /\ alteration_pipeline = <<>>
    /\ \E r \in RoiRequests, c \in CropChoices, n \in 1..MaxShapeN :
          shp = [NoShp EXCEPT !.roi = apply_roi(r[1], r[2]), !.crop = c, !.n = n]

NextShapes ==
    \/ ShpStart
    \/ ShpPush
    \/ ShpDone
    \/ \E c \in CropChoices : ShpCrop(c)
    \/ ShpAutoCrop
    \/ \E r \in RoiRequests : ShpRoi(r)

SpecShapes == InitShapes /\ [][NextShapes]_vars

\* ------------------------------------------- cache and token, in isolation
\* Init of the cache runs: the pipeline built at startup with every module
\* enabled, nothing pushed yet
InitCache ==
    /\ InitCommon
    /\ psu = NoPsu
    /\ save = NoSave
    /\ snap = NoSnap
    /\ sig = NoSig
    /\ refs = NoRefs
    /\ bpm = NoBpm
    /\ shp = NoShp
    /\ pcache = NoCache
    /\ integration_n = 1
    /\ cam_connected = TRUE
    /\ beam = [registered |-> FALSE, auto |-> FALSE, connected |-> FALSE,
               on |-> FALSE, ready |-> FALSE]
    /\ alteration_pipeline \in
          {BuildPipeline(Discovered(cfg)) :
              cfg \in {c \in ModuleConfigs : \A i \in 1..Len(c) : c[i].enabled}}

NextCache ==
    \/ \E k \in Workers, f \in RawFrames : PushLoad(k, f)
    \/ \E k \in Workers : PushStore(k)
    \/ \E k \in Workers : PushRead(k)
    \/ \E k \in Workers : PushStages(k)
    \/ \E k \in Workers : PushLock(k)
    \/ \E k \in Workers : PushTail(k)
    \/ \E name \in StageSet : cb_apply(name)
    \/ output_manual_from_module
    \/ \E name \in ToggledStages : CacheToggle(name)
    \/ \E s \in {0, FLAT_SLOT} : CacheSetCapture(s)

SpecCache == InitCache /\ [][NextCache]_vars

\* ------------------------------------------- push and tick, in isolation
\* Init of the signal runs: an empty buffer of capacity 1 or 2, no signal
InitSignal ==
    /\ InitCommon
    /\ psu = NoPsu
    /\ save = NoSave
    /\ snap = NoSnap
    /\ refs = NoRefs
    /\ bpm = NoBpm
    /\ shp = NoShp
    /\ pcache = NoCache
    /\ sig = NoSig
    /\ integration_n \in 1..2
    /\ cam_connected = TRUE
    /\ beam = [registered |-> FALSE, auto |-> FALSE, connected |-> FALSE,
               on |-> FALSE, ready |-> FALSE]
    /\ alteration_pipeline = <<>>

NextSignal ==
    \/ \E k \in Workers : SigBegin(k)
    \/ \E k \in Workers : SigStep(k)
    \/ SigTickTest
    \/ SigTickClear
    \/ SigTickUpdateDisplay

SpecSignal == InitSignal /\ [][NextSignal]_vars

\* ------------------------------------------- snapshot, in isolation
\* Init of the snapshot runs: a pipeline built at startup, no snapshot yet
InitSnapshot ==
    /\ InitCommon
    /\ psu = NoPsu
    /\ save = NoSave
    /\ refs = NoRefs
    /\ bpm = NoBpm
    /\ shp = NoShp
    /\ pcache = NoCache
    /\ sig = NoSig
    /\ snap = NoSnap
    /\ integration_n = 1
    /\ cam_connected = TRUE
    /\ beam = [registered |-> FALSE, auto |-> FALSE, connected |-> FALSE,
               on |-> FALSE, ready |-> FALSE]
    /\ alteration_pipeline \in SnapshotPipelines

NextSnapshot ==
    \/ \E f \in RawFrames : SnapPushLive(f)
    \/ \E f \in RawFrames : SnapPushCapture(f)
    \/ \E s \in {0, FLAT_SLOT} : SnapSetCapture(s)

SpecSnapshot == InitSnapshot /\ [][NextSnapshot]_vars


\* ------------------------------------------- settings save, in isolation
\* Init of the settings runs: the state __init__ leaves, nothing pending
InitSettings ==
    /\ InitCommon
    /\ psu = NoPsu
    /\ save = NoSave
    /\ refs = NoRefs
    /\ bpm = NoBpm
    /\ shp = NoShp
    /\ pcache = NoCache
    /\ sig = NoSig
    /\ snap = NoSnap
    /\ integration_n = 1
    /\ cam_connected = TRUE
    /\ beam = [registered |-> FALSE, auto |-> FALSE, connected |-> FALSE,
               on |-> FALSE, ready |-> FALSE]
    /\ alteration_pipeline = <<>>

NextSettings ==
    \/ \E scope \in SaveScopes : SaveRequestBegin(scope)
    \/ SaveRequestPending
    \/ SaveRequestScope
    \/ SaveRequestDeadline
    \/ SaveDeadlinePasses
    \/ \E t \in SaveThreads, force \in BOOLEAN : SaveFlushBegin(t, force)
    \/ \E t \in SaveThreads : SaveFlushDue(t)
    \/ \E t \in SaveThreads : SaveFlushReadScope(t)
    \/ \E t \in SaveThreads : SaveFlushClearPending(t)
    \/ \E t \in SaveThreads : SaveFlushResetScope(t)
    \/ \E t \in SaveThreads : SaveFlushWrite(t)

SpecSettings == InitSettings /\ [][NextSettings]_vars

\* ------------------------------------------- the supply core, beam side
\* current setpoints and readbacks of the beam runs, in hundredths of a mA
PsuMaValues == {0, 100}

\* Init of the beam runs: a fresh PSUCore with a current setpoint chosen,
\* not connected yet
InitPsuBeam ==
    /\ InitCommon
    /\ \E ma \in PsuMaValues : psu = [NoPsu EXCEPT !.ma_set = ma]
    /\ save = NoSave
    /\ refs = NoRefs
    /\ bpm = NoBpm
    /\ shp = NoShp
    /\ pcache = NoCache
    /\ sig = NoSig
    /\ snap = NoSnap
    /\ integration_n = 1
    /\ cam_connected = TRUE
    /\ beam = [registered |-> FALSE, auto |-> FALSE, connected |-> FALSE,
               on |-> FALSE, ready |-> FALSE]
    /\ alteration_pipeline = <<>>

NextPsuBeam ==
    \/ \E c \in PsuClients, on \in BOOLEAN : set_beam_on(c, on)
    \/ \E c \in PsuClients : set_beam_on_send(c)
    \/ \E c \in PsuClients : do_exposure(c)
    \/ \E c \in PsuClients : do_exposure_send(c)
    \/ \E c \in PsuClients : do_exposure_requested(c)
    \/ \E c \in PsuClients : exposure_done(c)
    \/ \E c \in PsuClients : exposure_done_send(c)
    \/ \E c \in PsuClients, d \in BOOLEAN : safe_shutdown(c, d)
    \/ \E c \in PsuClients : safe_shutdown_lock(c)
    \/ \E c \in PsuClients : safe_shutdown_window(c)
    \/ \E c \in PsuClients : disconnect_serial(c)
    \/ \E c \in PsuClients : connect_serial(c)
    \/ \E c \in PsuClients : connect_serial_lock(c)
    \/ \E c \in PsuClients : connect_serial_send(c)
    \/ \E p \in HvoutPayloads : parse_hvout(p)
    \/ parse_hvout_trip
    \/ parse_hvout_overtime
    \/ parse_hvout_fault_window
    \/ parse_hvout_fault_send
    \/ parse_hvout_window
    \/ parse_hvout_dropped
    \/ \E v \in BOOLEAN : parse_hvvalreached(v)
    \/ parse_hvvalreached_window
    \/ \E m \in PsuMaValues : parse_readstats(m)
    \/ check_beam_ready_read
    \/ check_beam_ready_eval
    \/ check_beam_ready_set

SpecPsuBeam == InitPsuBeam /\ [][NextPsuBeam]_vars

\* ------------------------------------------- the supply core, limits side
\* the setpoints the sliders request and the limits the supply reports
KvRequests == {0, 31, 50}
MaRequests == {0, 150}
FilRequests == {0, 350}
KvLimitLines == {NoLimit, 306, 600}
MaLimitLines == {NoLimit, 100}
FilLimitLines == {NoLimit, 300}

\* Init of the limit runs: connected, the limits at their defaults
InitPsuLimits ==
    /\ InitCommon
    /\ psu = [NoPsu EXCEPT !.connected = TRUE]
    /\ save = NoSave
    /\ refs = NoRefs
    /\ bpm = NoBpm
    /\ shp = NoShp
    /\ pcache = NoCache
    /\ sig = NoSig
    /\ snap = NoSnap
    /\ integration_n = 1
    /\ cam_connected = TRUE
    /\ beam = [registered |-> FALSE, auto |-> FALSE, connected |-> FALSE,
               on |-> FALSE, ready |-> FALSE]
    /\ alteration_pipeline = <<>>

NextPsuLimits ==
    \/ \E c \in PsuClients, kv \in KvRequests : set_kv(c, kv)
    \/ \E c \in PsuClients, ma \in MaRequests : set_ma(c, ma)
    \/ \E c \in PsuClients, fil \in FilRequests : set_fil_lim(c, fil)
    \/ \E c \in PsuClients : setpoint_store(c)
    \/ \E kv \in KvLimitLines, ma \in MaLimitLines, fil \in FilLimitLines :
          apply_limits(kv, ma, fil)
    \/ enforce_setpoints_limits
    \/ enforce_setpoints_clamp

SpecPsuLimits == InitPsuLimits /\ [][NextPsuLimits]_vars
\* --------------------------------------------------- frame store, in isolation
\* Init of the frame-store runs: empty buffer, any integration capacity
InitStore ==
    /\ InitCommon
    /\ psu = NoPsu
    /\ save = NoSave
    /\ snap = NoSnap
    /\ sig = NoSig
    /\ pcache = NoCache
    /\ shp = NoShp
    /\ bpm = NoBpm
    /\ refs = NoRefs
    /\ integration_n \in 1..MaxStoreN
    /\ cam_connected = TRUE
    /\ beam = [registered |-> FALSE, auto |-> FALSE, connected |-> FALSE,
               on |-> FALSE, ready |-> FALSE]
    /\ alteration_pipeline = <<>>

\* submit_raw_frame -> _push_frame with an empty pipeline, live mode
StorePush(f) ==
    /\ Len(hist.pushed) < MaxPush
    /\ PushFrame(f)
    /\ hist' = [hist EXCEPT !.pushed = Append(@, f), !.manual = FALSE]
    /\ UNCHANGED <<acq_mode, prev_acq_mode, acq_stop, integration_n,
                   last_captured_frame, fail_reason, keep_beam_on,
                   cam_connected, beam, pc, req, ct, ri_result, cal_result,
                   workers, tick_pc, ops, stops, acq_seq,
                   alteration_pipeline, refs, bpm, shp, pcache, sig, snap, save, psu>>

\* _output_manual_from_module: the continued frame becomes display_frame
StoreManualOutput(f) ==
    /\ display_frame' = <<f, 1>>
    /\ hist' = [hist EXCEPT !.manual = TRUE]
    /\ UNCHANGED <<acq_mode, prev_acq_mode, acq_stop, integration_n,
                   frame_buffer, last_captured_frame, new_frame_ready,
                   fail_reason, keep_beam_on, cam_connected, beam, capture,
                   pc, req, ct, ri_result, cal_result, workers, tick_pc, ops,
                   stops, acq_seq,
                   alteration_pipeline, refs, bpm, shp, pcache, sig, snap, save, psu>>

\* _cb_clear_buffer / clear_frame_buffer
StoreClear ==
    /\ ClearFrameBuffer
    /\ hist' = [hist EXCEPT !.pushed = <<>>, !.manual = FALSE]
    /\ UNCHANGED <<acq_mode, prev_acq_mode, acq_stop, integration_n,
                   last_captured_frame, new_frame_ready, fail_reason,
                   keep_beam_on, cam_connected, beam, capture, pc, req, ct,
                   ri_result, cal_result, workers, tick_pc, ops, stops,
                   acq_seq,
                   alteration_pipeline, refs, bpm, shp, pcache, sig, snap, save, psu>>

NextStore ==
    \/ \E f \in PixelValues : StorePush(f)
    \/ \E f \in PixelValues : StoreManualOutput(f)
    \/ StoreClear

SpecStore == InitStore /\ [][NextStore]_vars

\* ------------------------------------------------------------------ claims
\* C2: after the k-th push into an initially empty buffer of fixed capacity N
\* the integrated frame is the pixel-wise mean of the last min(k, N) pushed
\* frames, in arrival order.
C2_MeanOfLastN ==
    (hist.pushed # <<>> /\ ~hist.manual) =>
        display_frame =
            Mean(LastN(hist.pushed, Min(Len(hist.pushed), integration_n)))

\* frames 10, 20, 30, 40 pushed with capacity 3 give 30
C2_Witness ==
    /\ hist.pushed = <<10, 20, 30, 40>>
    /\ integration_n = 3
    /\ ~hist.manual
    /\ display_frame = <<30, 1>>

C1_FrameOrReason ==
    pc["wf"] = "ri_ret" => (ri_result # NoFrame \/ fail_reason \in FailReasons)

\* a call that found the controller idle, started, and returned None because
\* no frame was published in time
C1_Witness ==
    /\ pc["wf"] = "ri_ret"
    /\ ri_result = NoFrame
    /\ fail_reason = "no_frame"
    /\ acq_seq >= 1

\* C4: a stop() invoked at any moment after the controller has entered a
\* capturing mode (also before the detector worker runs) is followed by the
\* controller returning to idle.  Stated for the runs in which the detector
\* stays connected, which the claim includes.
C4_StopLeadsToIdle == hist.stop_cap ~> (acq_mode = "idle" \/ ~cam_connected)

\* C5: a stop requested while request_integration, a calibration capture or
\* turn_on_and_wait_ready is in progress makes that call return within
\* PollBound further polls of its wait loop.
C5_StopReturnsWithinBound == \A t \in Threads : hist.late[t] <= PollBound

\* C6: every transition from a capturing mode to idle with a registered,
\* connected, auto-toggle supply and the keep-beam-on flag false is followed
\* by a turn_off() call on the supply.
C6_IdleEdgeTurnsOff == hist.owed_edge ~> ~hist.owed_edge

\* C7: when a start with an auto-toggle supply is cancelled by the stop flag
\* while it waits for a beam that is not ready, the supply receives a
\* turn_off() call.
C7_CancelledStartTurnsOff == hist.owed_cancel ~> ~hist.owed_cancel

\* C8: when the stop flag is set while turn_on_and_wait_ready blocks in the
\* start of a request_integration call, the controller ends idle and the call
\* returns None with the reason stopped.
C8_CancelledRequestStopped ==
    (pc["wf"] = "ri_ret" /\ hist.note = "cancel") =>
        (acq_mode = "idle" /\ ri_result = NoFrame /\ fail_reason = "stopped")

\* C9: with a registered auto-toggle supply that is not connected (keep-beam-on
\* false) the start is refused without entering a capturing mode, and the
\* request_integration call returns None with the reason supply_not_connected.
C9_RefusedRequestReason ==
    /\ (pc["wf"] = "ri_poll" /\ hist.note = "refused") => acq_mode = "idle"
    /\ (pc["wf"] = "ri_ret" /\ hist.note = "refused") =>
          (ri_result = NoFrame /\ fail_reason = "supply_not_connected")

\* C10: with keep_beam_on set and a connected auto-toggle supply, across a
\* scan whose request_integration calls all succeed the beam is turned on
\* exactly once, before the first acquisition, and is not turned off while the
\* flag is set (no start makes the handshake, no capturing-to-idle edge calls
\* turn_off); the step at which the workflow clears the flag makes the one
\* turn_off, so the scan ends with one turn_on and one turn_off.
C10_BeamOnOnceOffOnce ==
    /\ []((keep_beam_on /\ pc["wf"] # "ct_beam_on") =>
            (hist.on_calls = 1 /\ hist.off_calls = 0))
    /\ [][(keep_beam_on /\ ~keep_beam_on' /\ ct.have_beam /\ ct.got >= 1
            /\ ct.left = 0) =>
              (hist'.on_calls = 1 /\ hist'.off_calls = 1 /\ ~beam'.on)]_vars

\* a finished scan of three successful projections with the beam kept on
C10_Witness ==
    /\ pc["wf"] = "idle"
    /\ ct.keep /\ ct.have_beam
    /\ ct.got = 3 /\ ct.left = 0
    /\ hist.on_calls = 1 /\ hist.off_calls = 1
    /\ ~beam.on

\* C11: whenever request_integration returns a frame, the frame was published
\* by a UI tick that ran after the capturing-to-idle transition of the
\* acquisition started by this same call; a frame published for an earlier
\* acquisition is never returned.
C11_FramePublishedAfterOwnIdle ==
    (pc["wf"] = "ri_ret" /\ ri_result # NoFrame) =>
        (hist.ri_seq # 0 /\ hist.fresh)

\* C12: at any time at most one detector worker is active: start requests
\* issued from different threads (UI Start, workflow request_integration,
\* calibration capture) never leave two workers running at the same time.
C12_AtMostOneWorker ==
    Cardinality({w \in Workers : workers[w].st # "off"}) <= 1

\* C13: a start that is refused because an acquisition is in progress (Start or
\* Capture N clicked in the UI, request_integration, the calibration capture)
\* returns with the acquisition mode, the stop flag, integration_n, the
\* integration buffer and the capture state as they were before the call.
C13_RefusedWhileBusyChangesNothing ==
    [][/\ (pc["ui"] = "sa_check" /\ pc'["ui"] = "idle" /\ cam_connected
             /\ acq_mode # "idle")
          => (/\ integration_n' = hist.click_n
              /\ UNCHANGED <<acq_mode, acq_stop, frame_buffer, capture>>)
       /\ (pc["wf"] = "ri_check" /\ pc'["wf"] = "ri_ret" /\ cam_connected
             /\ acq_mode # "idle")
          => UNCHANGED <<acq_mode, acq_stop, integration_n, frame_buffer,
                         capture>>
       /\ (pc["cal"] = "idle" /\ ops'["cal"] # ops["cal"] /\ cam_connected
             /\ acq_mode # "idle")
          => UNCHANGED <<acq_mode, acq_stop, integration_n, frame_buffer,
                         capture>>]_vars

\* C14: a calibration capture (request_n_frames_processed_up_to_slot) that is
\* refused because Auto On/Off is enabled and the supply is not connected
\* returns with the integration buffer, integration_n and the capture state
\* unchanged.
C14_SupplyRefusalChangesNothing ==
    [][(/\ pc["cal"] = "idle" /\ ops'["cal"] # ops["cal"] /\ pc'["cal"] = "idle"
        /\ cam_connected /\ acq_mode = "idle"
        /\ HasAuto /\ ~beam.connected /\ ~keep_beam_on)
          => UNCHANGED <<frame_buffer, integration_n, capture>>]_vars

\* C15: in every reachable state 1 <= integration_n <= 32: settings load,
\* Start, Capture N, request_integration and the calibration capture all
\* clamp the count they are given into that range.
C15_IntegrationNInRange ==
    INTEG_N_MIN <= integration_n /\ integration_n <= INTEG_N_MAX

\* C20: the pipeline built at startup never holds two stages with the same
\* slot.
C20_SlotsUnique ==
    \A i \in 1..Len(alteration_pipeline), j \in 1..Len(alteration_pipeline) :
        i # j => alteration_pipeline[i].slot # alteration_pipeline[j].slot

\* C16: a step that changes the integration capacity to a value N' smaller
\* than the buffer length leaves the buffer holding its N' newest frames and
\* the integrated frame equal to their mean.
C16_TrimOnCapacityChange ==
    [][(integration_n' # integration_n /\ integration_n' < Len(frame_buffer))
          => (/\ frame_buffer' = LastN(frame_buffer, integration_n')
              /\ display_frame' = Mean(frame_buffer'))]_vars

\* the stages of the pipeline with slot below s / above s, in pipeline order
StagesBelow(s) == SelectSeq(alteration_pipeline, LAMBDA m : m.slot < s)
StagesAbove(s) == SelectSeq(alteration_pipeline, LAMBDA m : m.slot > s)

\* C17: when request_n_frames_processed_up_to_slot(N, max_slot) returns a
\* frame, it is the mean of exactly N collected frames, each of them a captured
\* frame processed by exactly the stages with slot < max_slot, in ascending
\* slot order.
C17_MeanOfNPrefixFrames ==
    [][(pc["cal"] = "cal_wait2" /\ pc'["cal"] = "idle" /\ cal_result' # NoFrame)
          => (/\ Len(capture.collect) = req["cal"].n
              /\ \A k \in 1..Len(capture.collect) :
                    \E r \in 1..acq_seq :
                       capture.collect[k] =
                          RunLive(StagesBelow(capture.max_slot), r)
              /\ cal_result' = Mean(capture.collect))]_vars

\* the slots of the pipeline are strictly increasing
StrictlyIncreasing ==
    \A i \in 1..(Len(alteration_pipeline) - 1) :
        alteration_pipeline[i].slot < alteration_pipeline[i + 1].slot

\* C18: for a pipeline with strictly increasing slots s1 < s2 < ... and any
\* input frame, the prefix run with max_slot = s_i followed by the continuation
\* from slot s_(i-1) gives the same frame as one full live run on that input.
C18_PrefixThenContinueIsLive ==
    StrictlyIncreasing =>
        \A i \in 2..Len(alteration_pipeline), r \in RawFrames :
            ContinueFromSlot(alteration_pipeline,
                             RunPrefix(alteration_pipeline, r,
                                       alteration_pipeline[i].slot),
                             alteration_pipeline[i - 1].slot)
                = RunLive(alteration_pipeline, r)

\* a flat capture collected a frame with the stages below the flat slot
\* applied, and the manual output of the stage before it, given that frame,
\* shows the frame of the full live run
C18_Witness ==
    /\ StrictlyIncreasing
    /\ Len(alteration_pipeline) = 3
    /\ \E i \in 2..Len(alteration_pipeline), r \in RawFrames :
          /\ hist.manual_name = alteration_pipeline[i - 1].name
          /\ hist.manual_in = RunPrefix(alteration_pipeline, r,
                                        alteration_pipeline[i].slot)
          /\ hist.manual_in # r
          /\ \E k \in 1..Len(capture.collect) :
                capture.collect[k] = hist.manual_in
          /\ display_frame = <<RunLive(alteration_pipeline, r), 1>>

\* C19: continue_pipeline_from_module(name, frame), as used by the manual
\* output of a module, applies to the frame exactly the stages whose slot is
\* greater than the slot of the stage called name, in ascending slot order,
\* and neither that stage nor an earlier one.
C19_ContinueAppliesStagesAbove ==
    [][(hist'.manual_name # hist.manual_name \/ hist'.manual_in # hist.manual_in)
          => display_frame' =
                <<RunLive(StagesAbove(ModuleSlot(alteration_pipeline,
                                                 hist'.manual_name)),
                          hist'.manual_in), 1>>]_vars

\* manual output of the middle stage of a three-stage pipeline: only the last
\* stage ran on the frame
C19_Witness ==
    /\ Len(alteration_pipeline) = 3
    /\ hist.manual_name = alteration_pipeline[2].name
    /\ hist.manual_in \in RawFrames
    /\ alteration_pipeline[2].slot < alteration_pipeline[3].slot
    /\ display_frame = <<Step(alteration_pipeline[3].name, hist.manual_in), 1>>

\* C21: when a stage fails on a frame no exception leaves the pipeline: the
\* acquisition goes on and the frame is still pushed, to the capture collection
\* in prefix-only mode and to the integration buffer in live mode.
C21_StageFailurePassesThrough ==
    [][(hist'.stage_errors # hist.stage_errors)
          => (/\ acq_mode' = acq_mode
              /\ IF capture.max_slot # 0
                 THEN Len(capture'.collect) = Len(capture.collect) + 1
                 ELSE frame_buffer' # <<>> /\ new_frame_ready')]_vars


\* ------------------------------------------------------------ reference store
DistTo(f) == distance_time_gain(refs.integration_time, refs.gain, f.t, f.g)

CamCandidates == scan_dir(refs.cam_dir, refs.frame_width, refs.frame_height)

\* C22: a lookup selects a candidate of minimum distance
\* d = |dt| + |dgain|/100 among all scanned candidates; among candidates at
\* that distance it selects the first in scan order, the per-detector
\* directory being scanned before the top-level one.
C22_NearestSelected ==
    LET c == Candidates(refs)
        res == find_nearest(refs)
    IN /\ res.found <=> c # <<>>
       /\ res.found =>
            /\ res.at \in 1..Len(c)
            /\ res.file = c[res.at]
            /\ res.dist = DistTo(c[res.at])
            /\ res.tg = <<c[res.at].t, c[res.at].g>>
            /\ \A j \in 1..Len(c) :
                  /\ DistTo(c[j]) >= res.dist
                  /\ j < res.at => DistTo(c[j]) > res.dist
            /\ (\E j \in 1..Len(CamCandidates) : DistTo(c[j]) = res.dist)
                  => res.at <= Len(CamCandidates)

\* C22 witness: a per-detector candidate and a top-level candidate tie at the
\* minimum distance, a farther candidate is scanned before them, and the
\* lookup has loaded the selected one
C22_Witness ==
    LET c == Candidates(refs)
        res == find_nearest(refs)
    IN /\ res.found
       /\ Len(c) = 3
       /\ res.at = 2
       /\ DistTo(c[1]) > res.dist
       /\ DistTo(c[3]) = res.dist
       /\ Len(CamCandidates) = 2
       /\ refs.field = ArrayOf(res.file)
       /\ refs.loaded_time_gain = res.tg

\* the nearest scanned candidate is within the threshold and holds an array of
\* the current frame size
Applicable(r) ==
    LET res == find_nearest(r)
    IN /\ res.found
       /\ res.dist <= DARK_FLAT_MATCH_THRESHOLD
       /\ res.file.aw = r.frame_width /\ res.file.ah = r.frame_height

\* a step that changes the exposure, the gain or the frame size, and so runs
\* the lookup
LookupStep ==
    <<refs.integration_time, refs.gain, refs.frame_width, refs.frame_height>>'
        # <<refs.integration_time, refs.gain, refs.frame_width, refs.frame_height>>

TooFarText == "None (nearest Xs @ Y too far)"

\* the lookup of this step found candidates, the nearest beyond the threshold
Rejected ==
    /\ LookupStep
    /\ find_nearest(refs').found
    /\ find_nearest(refs').dist > DARK_FLAT_MATCH_THRESHOLD

RejectionShown ==
    /\ ~refs'.field.loaded
    /\ refs'.nearest_time_gain = find_nearest(refs').tg
    /\ status_text(refs') = [kind |-> refs.kind, text |-> TooFarText,
                             X |-> find_nearest(refs').tg[1],
                             Y |-> find_nearest(refs').tg[2]]

S2File(t) == [t |-> t, g |-> 100, w |-> 2400, h |-> 2400, aw |-> 2400, ah |-> 2400]

S2Case(r) ==
    /\ Len(r.cam_dir) + Len(r.top_dir) = 2
    /\ {r.cam_dir[i] : i \in 1..Len(r.cam_dir)}
          \cup {r.top_dir[i] : i \in 1..Len(r.top_dir)} = {S2File(10), S2File(15)}
    /\ r.integration_time = 50 /\ r.gain = 200
    /\ r.frame_width = 2400 /\ r.frame_height = 2400

S2Outcome(r) ==
    /\ ~r.field.loaded
    /\ ~InEffect(r)
    /\ status_text(r) = [kind |-> r.kind, text |-> TooFarText, X |-> 15, Y |-> 100]

\* C25 as stated: for that store, threshold 1.0 and that query, the
\* lookup finds the nearest distance 4.0 + 1.0 = 5.0, applies no reference and
\* the status shows the remembered nearest key 1.5 s @ 100.
C25_S2NearestDistanceFive ==
    [][(LookupStep /\ S2Case(refs'))
          => (find_nearest(refs').dist = 500 /\ S2Outcome(refs'))]_vars

\* C25 as amended: for that store, threshold 1.0 and that query, the
\* lookup finds the nearest distance 3.5 + 1.0 = 4.5 (5.0 is the distance of
\* the other key, 1.0 s), applies no reference and the status shows the
\* remembered nearest key 1.5 s @ 100.
C25_S2NearestDistanceFourAndHalf ==
    [][(LookupStep /\ S2Case(refs'))
          => (/\ find_nearest(refs').dist = 450
              /\ find_nearest(refs').tg = <<15, 100>>
              /\ distance_time_gain(50, 200, 10, 100) = 500
              /\ S2Outcome(refs'))]_vars

\* C25 witness: scenario S2 after its lookup
C25_Witness ==
    /\ S2Case(refs)
    /\ refs.nearest_time_gain = <<15, 100>>
    /\ ~refs.field.loaded

\* ------------------------------------------------------------ bad-pixel stage
\* the mask is used on the frame: switched on, present and of the frame's shape
MaskUsed(b) ==
    /\ b.auto_correct
    /\ b.mask # NoMask
    /\ <<b.mask.h, b.mask.w>> = <<b.frame.h, b.frame.w>>

\* C26: for an incoming frame F and a mask M, the output of the
\* bad-pixel stage has the shape of F and equals F at every pixel where M is
\* false; with no mask, a mask of another shape or the stage switched off the
\* output is F.
C26_GoodPixelsUnchanged ==
    LET out == bad_pixel_process_frame(bpm.frame, bpm.mask, bpm.auto_correct)
    IN /\ <<out.h, out.w>> = <<bpm.frame.h, bpm.frame.w>>
       /\ MaskUsed(bpm) =>
             \A c \in Grid(bpm.frame.h, bpm.frame.w) :
                 ~bpm.mask.px[c] => out.px[c] = bpm.frame.px[c]
       /\ ~MaskUsed(bpm) => out = bpm.frame

\* C26 witness: the stage has run with a mask that marks one pixel, that pixel
\* was replaced by another value, and a good pixel next to it differs from the
\* value written
C26_Witness ==
    /\ bpm.ran
    /\ bpm.out = bad_pixel_process_frame(bpm.frame, bpm.mask, bpm.auto_correct)
    /\ MaskUsed(bpm)
    /\ bpm.mask.px[<<1, 1>>] /\ ~bpm.mask.px[<<1, 2>>]
    /\ bpm.out.px[<<1, 1>>] # bpm.frame.px[<<1, 1>>]
    /\ bpm.out.px[<<1, 2>>] # bpm.out.px[<<1, 1>>]
    /\ bpm.out.px[<<1, 2>>] = bpm.frame.px[<<1, 2>>]

\* ---------------------------------------------------------------- frame sizes
\* C27: in every reachable state all frames held in the integration
\* buffer have the same (width, height), also when the crop rectangle or the
\* detector ROI is changed while frames are being acquired.
C27_BufferOneSize ==
    \A i, j \in 1..Len(shp.buffer) : shp.buffer[i] = shp.buffer[j]

\* ------------------------------------------------------ finite acquisitions
\* C28: in a finite acquisition mode every entry into the capturing
\* state is eventually followed by the idle state, also when the driver raises
\* or the detector is found disconnected when the worker is started.
C28_FiniteCaptureLeadsToIdle ==
    (acq_mode # "idle" /\ acq_mode # "continuous") ~> (acq_mode = "idle")

\* C29: on every idle-to-capturing transition the stop flag is
\* cleared and the integration buffer is emptied before the detector worker
\* submits its first frame, so the integrated frame during and after an
\* acquisition is computed only from frames of that acquisition: the buffered
\* frames all carry the stamp of one acquisition, and the integrated frame is
\* that stamp.
C29_BufferOfOneAcquisition ==
    /\ \A i, j \in 1..Len(frame_buffer) : frame_buffer[i] = frame_buffer[j]
    /\ frame_buffer # <<>> => display_frame \in {NoFrame, <<frame_buffer[1], 1>>}

\* ---- C30
\* the stages a run reaches: behind start_slot_exclusive, before max_slot
\* (0: no limit)
Reached(p, max_slot, start_slot_exclusive) ==
    SelectSeq(p, LAMBDA s : /\ s.slot > start_slot_exclusive
                            /\ (max_slot = 0 \/ s.slot < max_slot))

\* the frame as it is about to enter the i-th stage of the run q
RECURSIVE EnterAt(_, _, _, _)
EnterAt(q, frame, i, auto) ==
    IF i = 1 THEN frame
    ELSE StepAuto(q[i - 1].name, EnterAt(q, frame, i - 1, auto), auto)

\* after a run q of token t on frame f, every reached stage's entry holds the
\* frame that entered it
EntriesOf(q, f, t, auto, cache) ==
    \A i \in 1..Len(q) :
        cache[q[i].name] = [set |-> TRUE, token |-> t, slot |-> q[i].slot,
                            frame |-> EnterAt(q, f, i, auto)]

\* the stage loop of a pushed frame has just run
PushRan(k) == pcache.w[k].pc = "stages" /\ pcache'.w[k].pc = "lock"

PushEntries ==
    \A k \in Workers :
        PushRan(k) =>
            EntriesOf(Reached(alteration_pipeline, pcache.w[k].max_slot, -1),
                      pcache.w[k].frame, pcache.w[k].token, pcache.auto,
                      pcache'.cache)

ContinueEntries ==
    output_manual_from_module =>
        EntriesOf(Reached(alteration_pipeline, 0,
                          ModuleSlot(alteration_pipeline, pcache.ui.name)),
                  pcache.ui.frame, pcache.token, pcache.auto, pcache'.cache)

TokensIncrease(given) ==
    \A i, j \in 1..Len(given) : i < j => given[i] < given[j]

\* C30: every stage a pipeline run reaches (a pushed frame's run, live or
\* capture, and a manual continuation behind a module) has its cache entry
\* replaced by the frame as it was about to enter the stage, auto-apply on or
\* off, together with a token; and each newly pushed frame gets a token
\* greater than that of every frame pushed before it.
C30_CacheEntryIsEnteringFrameTokensIncrease ==
    [][ /\ PushEntries
        /\ ContinueEntries
        /\ TokensIncrease(pcache'.given) ]_vars

\* ---- C31
\* the step reads a stage's cache entry (get_module_incoming_image in Apply)
CacheReadStep == pcache.ui.pc = "idle" /\ pcache'.ui.pc = "output"

\* the names of the stages the run of worker k reaches
ReachedNames(k) ==
    LET q == Reached(alteration_pipeline, pcache.w[k].max_slot, -1)
    IN  {q[i].name : i \in 1..Len(q)}

\* C31: every write to and every read of the per-stage cache happens while
\* the accessing thread holds frame_lock, and a stage's entry is written only
\* on behalf of that stage (by a run that reaches the stage, with the stage's
\* own slot).
C31_CacheAccessUnderFrameLock ==
    [][ /\ \A k \in Workers :
              (PushRan(k) /\ pcache'.cache # pcache.cache) => pcache.lock = k
        /\ CacheReadStep => pcache.lock = UiThread
        /\ \A name \in StageSet :
              pcache'.cache[name] # pcache.cache[name] =>
                  \E k \in Workers :
                      /\ PushRan(k)
                      /\ name \in ReachedNames(k)
                      /\ pcache'.cache[name].slot = ModuleSlot(alteration_pipeline, name) ]_vars

\* ---- C32
\* the integrated frame right after the m-th push
MeanAfter(m) == Mean(LastN(SubSeq(sig.frames, 1, m), integration_n))

\* the frame of push i is in the buffer and `shown` was read after it went in
ShownIncludes(i, shown) ==
    \E j \in 1..Len(sig.frames) :
        /\ sig.frames[j] = i
        /\ \E m \in j..Len(sig.frames) : shown = MeanAfter(m)

\* the tick has just read display_frame
TickRead == sig.ui = "cleared" /\ sig'.ui = "idle"

\* push i still has its signal ahead of it, raised, or consumed by the tick
\* that is about to read
SignalOwed(i) ==
    \/ \E k \in Workers : sig.w[k].idx = i
    \/ i \in sig.raised
    \/ sig.ui = "cleared" /\ i \in sig.consumed

NoFrameUnobserved ==
    \A j \in 1..Len(sig.frames) :
        ShownIncludes(sig.frames[j], sig.shown) \/ SignalOwed(sig.frames[j])

Below(p, s) == SelectSeq(p, LAMBDA st : st.slot < s)

HasDistortionStage ==
    \E i \in 1..Len(alteration_pipeline) :
        alteration_pipeline[i].slot >= DISTORTION_PREVIEW_SLOT

\* C33: after a live run through a pipeline with a stage of slot >= 450, the
\* stored pre-distortion snapshot is the input frame with exactly the stages
\* of slot < 450 applied (the frame as it was before the first stage with
\* slot >= 450 ran).
C33_SnapshotIsPrefixBelowDistortion ==
    (snap.live /\ HasDistortionStage) =>
        snap.before = RunLive(Below(alteration_pipeline, DISTORTION_PREVIEW_SLOT),
                              snap.input)

\* C33 witness: a live run through dark correction, pincushion and a later
\* distortion stage has stored the dark-corrected frame
C33_Witness ==
    /\ snap.live
    /\ Len(alteration_pipeline) >= 3
    /\ alteration_pipeline[1].name = "dark_correction"
    /\ alteration_pipeline[2].name = "pincushion"
    /\ snap.before = Step("dark_correction", snap.input)
    /\ frame_buffer # <<>>
    /\ frame_buffer[Len(frame_buffer)] # snap.before

\* ---- C34
\* request_integration returns with this step
RI_Returns == pc["wf"] # "ri_ret" /\ pc'["wf"] = "ri_ret"

\* C34: at the moment request_integration returns (a frame, or None for any
\* reason, stopped and timeout included) the controller is idle and no
\* detector worker is running, so a request made right away is not refused
\* with not_idle.
C34_ReturnLeavesControllerIdle ==
    [][ RI_Returns =>
          /\ acq_mode' = "idle"
          /\ \A w \in Workers : workers'[w].st = "off" ]_vars

\* ---- C35
\* worker w submits a frame with this step
Submits(w) ==
    /\ workers[w].st \in {"run", "read"}
    /\ workers'[w].st = "run"
    /\ workers'[w].left # workers[w].left

\* C35: every frame submitted by the detector worker of a calibration capture,
\* from the start of the capture until the worker has exited, goes to the
\* capture collection only: the integration buffer, the integrated frame and
\* new_frame_ready are left as they are, also after the capture was stopped
\* or timed out.
C35_CaptureFramesOnlyCollected ==
    [][ \A w \in Workers :
          Submits(w) =>
            /\ Len(capture'.collect) = Len(capture.collect) + 1
            /\ frame_buffer' = frame_buffer
            /\ display_frame' = display_frame
            /\ new_frame_ready' = new_frame_ready ]_vars

\* ---- C36
\* the next TickCheck sees the edge capturing -> idle and publishes
EdgePending == tick_pc = "check" /\ prev_acq_mode # "idle" /\ acq_mode = "idle"

\* C36: when the acquisition started by request_integration has gone idle
\* with at least one frame pushed and no stop or timeout, and the call waits
\* for its frame, then the frame is published or the running UI tick is about
\* to publish it, so the call gets the integrated frame and not no_frame.
C36_CompletedAcquisitionIsPublished ==
    (/\ pc["wf"] = "ri_wait"
     /\ acq_mode = "idle"
     /\ ~acq_stop
     /\ frame_buffer # <<>>)
        => (last_captured_frame # NoFrame \/ EdgePending)

\* ---- C37
\* thread t leaves _flush_pending_settings_save through one of its two writes
SaveWrites(t) == save.th[t].pc = "f358" /\ save'.th[t].pc = "idle"

\* C37: once a full-scope save request has returned and no full write has
\* followed it, every write a flush performs is the full write, whatever
\* window-scope requests came in between.
C37_PendingFullSaveNotDowngraded ==
    [][\A t \in SaveThreads :
          (SaveWrites(t) /\ save.owed) => save'.written = "full"]_vars

\* ---- C38
\* a client thread sends BeamOn:1 in this step
SendsBeamOn1 ==
    \E c \in PsuClients :
       /\ psu.cl[c].pc \in {"sb_send1", "de_send"}
       /\ psu'.cl[c].pc # psu.cl[c].pc

\* C38: while the filament fault is latched no BeamOn:1 is sent and
\* exposure_active is false, whatever the interleaving of set_beam_on and
\* do_exposure with the status-line reader.
C38_NoBeamOnWhileFaultLatched ==
    [][(SendsBeamOn1 => ~psu.filament_fault)
       /\ (psu'.filament_fault => ~psu'.exposure_active)]_vars

\* ---- C39
\* C39: beam_ready is true only while exposure_active is true.
C39_BeamReadyOnlyWhileExposureActive ==
    psu.beam_ready => psu.exposure_active

\* ---- C40
\* no setpoint call and no limit update is in progress
PsuQuiet ==
    /\ \A c \in PsuClients : psu.cl[c].pc = "idle"
    /\ psu.rd.pc = "idle"

\* C40: whenever no set_kv / set_ma / set_fil_lim and no limit update is in
\* progress, kv_set <= hard_kv_lim <= 50, ma_set <= hard_ma_lim <= 1.5 and
\* fil_lim_set <= hard_fil_lim <= 3.5.
C40_SetpointsWithinHardLimits ==
    PsuQuiet =>
        /\ psu.kv_set * 10 <= psu.hard_kv_lim /\ psu.hard_kv_lim <= HARD_KV_MAX
        /\ psu.ma_set <= psu.hard_ma_lim /\ psu.hard_ma_lim <= HARD_MA_MAX
        /\ psu.fil_lim_set <= psu.hard_fil_lim
        /\ psu.hard_fil_lim <= HARD_FIL_MAX

====
